---- MODULE Spec2Model ----
(***************************************************************************)
(* A model of the bevy_ecs scheduler: the TypeAccess /                     *)
(* CondensedTypeAccess primitives (core/access.rs), topological_sorting,   *)
(* Schedule::run and RunCriteria (schedule/mod.rs), SystemStage            *)
(* (schedule/stage.rs), the ParallelSystemStageExecutor                    *)
(* (schedule/stage_executor_parallel.rs) and the run criteria protocol of  *)
(* execute_stage in schedule/stage_executor.rs; further the stage order    *)
(* of Schedule, the State driver (schedule/state.rs), the descriptors of   *)
(* schedule/system_descriptor.rs, the resource parameters of               *)
(* system/system_param.rs, QueryAccess (core/access.rs) and ChainSystem    *)
(* (system/system_chaining.rs).                                            *)
(*                                                                         *)
(* The module holds several state machines over one set of variables; each *)
(* specification leaves the variables of the others at their idle values:  *)
(*   SpecAccess    builds two TypeAccess values and checks compatibility,  *)
(*   SpecTopo      applies topological_sorting to a graph,                 *)
(*   Spec          runs a stage through the parallel executor,             *)
(*   SpecStage     adds systems to a stage and runs it, rebuild included,  *)
(*   SpecRun       runs a schedule and its stage under run criteria,       *)
(*   SpecCriteria  evaluates the sets' run criteria in execute_stage,      *)
(*   SpecSchedule  adds stages to a schedule and runs it once,             *)
(*   SpecState     drives a State through the ticks of its stage,          *)
(*   SpecStateEvents the same with events arriving in the course of a tick,*)
(*   SpecStateFair the same as SpecState with a fair executor loop,        *)
(*   SpecParams    initialises the resource parameters of a system,        *)
(*   SpecDescriptor adds systems built with label, before and after,       *)
(*   SpecQuery     gathers the archetype access of a query,                *)
(*   SpecChain     updates the access of a ChainSystem,                    *)
(*   SpecData      keeps the executor's scheduling data over several runs. *)
(***************************************************************************)
EXTENDS Integers, Sequences, FiniteSets, TLC

(***************************************************************************)
(* Bounds of the model.                                                    *)
(***************************************************************************)
\* most YesAndLoop results of a stage's or schedule's criteria system in
\* one run
MaxLoops == 2
\* most dependency labels of a parallel system descriptor
MaxLabelDeps == 2
\* number of system sets of the stage of SpecStage and SpecRun
NumStageSets == 2
\* most systems of the stage of SpecStage
MaxStageSystems == 2
\* most stages in the order of the schedule of SpecSchedule
MaxStages == 3
\* most unread StateChange events of SpecState
MaxStateEvents == 1
\* SpecStateEvents: rounds of a tick in which events can arrive
MaxEventRounds == 2
\* most parameters of the system of SpecParams
MaxParams == 3
\* most label, before and after calls on a descriptor of SpecDescriptor
MaxCoercions == 2
\* SpecQuery: number of component types, most archetypes of the world,
\* deepest nesting of a query and most members of a Union
NumComponents == 2
MaxArchetypes == 2
MaxQueryDepth == 2
MaxUnion == 2
\* number of distinct access items of the systems of SpecChain
MaxChainItems == 1
\* SpecData: parallel systems added to the stage, and changes of the
\* world's archetypes
MaxDataSystems == 2
MaxGenerations == 2
\* number of distinct access items (resource types / archetype components)
MaxItems == 2
\* longest universe slice handed to condense in SpecAccess
MaxUniverse == 2
\* number of graph nodes in SpecTopo
MaxNodes == 3
\* longest adjacency list of a graph node in SpecTopo
MaxAdj == 2

\* number of parallel systems of the stage in Spec
NumSys == 3
\* number of system sets of the stage in Spec
NumSets == 2
\* longest dependency list of a parallel system in Spec
MaxDeps == 2
\* number of distinct access items of each kind in Spec
MaxStageItems == 1

Items == 1..MaxItems
Nodes == 1..MaxNodes
Systems == 1..NumSys
Sets == 1..NumSets
StageItems == 1..MaxStageItems

VARIABLES
    \* SpecAccess: the two TypeAccess values and the last compatibility check
    acc_a, acc_b, acc_out,
    \* SpecTopo: the input graph and the result of topological_sorting
    topo_graph, topo_out,
    \* Spec, the stage: its parallel systems (set, thread-local flag,
    \* dependencies, declared accesses), which sets have a run criterion
    \* system, and whether some set is dirty
    parallel_systems, run_criteria, is_dirty,
    \* Spec, the fields of ParallelSystemStageExecutor
    last_archetypes_generation, system_set_should_run, parallel,
    should_run, thread_local, queued, running,
    active_archetype_component_access, active_resource_access,
    \* Spec, the channels and the spawned system tasks
    start_signals, finish_channel, task,
    \* Spec, the coordinator: position in execute_stage, position in the
    \* sequence of exclusive systems being run, the thread-local system
    \* executing on the coordinator thread (0 if none)
    pc, seq_pos, tl_index,
    \* Spec, observations: runs of each parallel system in this outer
    \* iteration, systems whose completion the coordinator has processed in
    \* this pass, phases of this outer iteration, and for the current
    \* coordinator loop iteration: whether it began with running empty and
    \* queued non-empty, and the systems it started
    ran, completed, phases, loop_mark, loop_started,
    \* SpecStage and SpecRun, the fields of SystemStage: the system sets
    \* (dirty bit, parallel and sequential descriptors), the three orders of
    \* sequential systems, the resolved dependencies of the parallel
    \* systems, and whether the stage and the schedule that holds it have a
    \* run criteria system
    system_sets, at_start, before_commands, at_end, parallel_dependencies,
    stage_run_criteria, schedule_run_criteria,
    \* SpecStage and SpecRun, control: position in Schedule::run and in
    \* SystemStage::run
    schedule_pc, stage_pc,
    \* SpecStage and SpecRun, observations: what the criteria systems
    \* returned and how often the body ran in the current Schedule::run and
    \* SystemStage::run, rebuilds and execute_stage calls in the current
    \* SystemStage::run, the stage as it was when SystemStage::run was
    \* entered, what the last run_once saw and did, and the systems added
    \* since the last run_once
    schedule_outputs, schedule_bodies, stage_outputs, stage_bodies,
    rebuilds, executions, entry, once, added,
    \* SpecCriteria, ParallelSystemStageExecutor::execute_stage of
    \* schedule/stage_executor.rs: which sets have a criteria system, the
    \* cached results, the position in execute_stage, and observations
    crit_sets, crit_should_run, crit_pc, crit_evaluations, crit_runs,
    crit_iterations, crit_before,
    \* SpecSchedule, the fields of Schedule: the stages by name (a stage is
    \* identified by the number of the call that added it) and the stage
    \* order; the last add_stage* call, the position of run_once in the
    \* order (0 outside run_once), and the stages run by the last run_once
    \* if no stage was added since
    stages, stage_order, order_op, run_position, stages_ran,
    \* SpecState, the fields of State and StateScratchSpace, the unread
    \* StateChange events, the last result of every state criterion in this
    \* tick, the position in the tick, and observations: the criteria that
    \* yielded a run in each round of the tick, and the state and events the
    \* tick began with
    state_current, state_transition, state_prepare_for_exit, state_done,
    state_events, state_should_run, tick_pc, tick_runs, tick_entry,
    \* SpecParams, the initialisation of a system's parameters: the
    \* parameter list, the number of parameters initialised, the
    \* resource_access of the SystemState, and whether an init panicked
    params, params_done, state_resource_access, init_status,
    \* SpecQuery, get_world_archetype_access: the query, the archetypes of
    \* the world, the number of archetypes visited, and the type access
    \* handed in
    query, archetypes, archetypes_done, query_type_access,
    \* SpecChain, a ChainSystem: the accesses its two systems report, its
    \* own two accesses, and whether update_access has been called
    system_a, system_b, chain_archetype_component_access,
    chain_resource_access, chain_updated,
    \* SpecData, a stage and its executor over several runs: the parallel
    \* systems of the stage's sets, the sets' dirty bits, the stage's
    \* parallel_dependencies, the executor's parallel list and
    \* last_archetypes_generation, the world's archetypes generation, and
    \* the position in run_once
    sd_systems, sd_is_dirty, sd_parallel_dependencies, sd_parallel,
    sd_last_archetypes_generation, sd_archetypes_generation, sd_pc

accVars == <<acc_a, acc_b, acc_out>>
topoVars == <<topo_graph, topo_out>>
stageVars == <<parallel_systems, run_criteria, is_dirty>>
executorVars ==
    <<last_archetypes_generation, system_set_should_run, parallel,
      should_run, thread_local, queued, running,
      active_archetype_component_access, active_resource_access>>
taskVars == <<start_signals, finish_channel, task>>
coordVars == <<pc, seq_pos, tl_index>>
obsVars == <<ran, completed, phases, loop_mark, loop_started>>
execVars == <<stageVars, executorVars, taskVars, coordVars, obsVars>>
stageFieldVars ==
    <<system_sets, at_start, before_commands, at_end, parallel_dependencies,
      stage_run_criteria, schedule_run_criteria>>
runVars == <<schedule_pc, stage_pc>>
runObsVars ==
    <<schedule_outputs, schedule_bodies, stage_outputs, stage_bodies,
      rebuilds, executions, entry, once, added>>
buildVars == <<stageFieldVars, runVars, runObsVars>>
critVars ==
    <<crit_sets, crit_should_run, crit_pc, crit_evaluations, crit_runs,
      crit_iterations, crit_before>>
coreVars == <<accVars, topoVars, execVars, buildVars, critVars>>
schedVars == <<stages, stage_order, order_op, run_position, stages_ran>>
\* the variables of the specifications that follow SpecCriteria
stateVars ==
    <<state_current, state_transition, state_prepare_for_exit, state_done,
      state_events, state_should_run, tick_pc, tick_runs, tick_entry>>
paramVars == <<params, params_done, state_resource_access, init_status>>
queryVars == <<query, archetypes, archetypes_done, query_type_access>>
chainVars ==
    <<system_a, system_b, chain_archetype_component_access,
      chain_resource_access, chain_updated>>
dataVars ==
    <<sd_systems, sd_is_dirty, sd_parallel_dependencies, sd_parallel,
      sd_last_archetypes_generation, sd_archetypes_generation, sd_pc>>
laterVars ==
    <<schedVars, stateVars, paramVars, queryVars, chainVars, dataVars>>
\* for each of them, the variables of the others
schedOthers ==
    <<coreVars, stateVars, paramVars, queryVars, chainVars, dataVars>>
stateOthers ==
    <<coreVars, schedVars, paramVars, queryVars, chainVars, dataVars>>
paramOthers ==
    <<coreVars, schedVars, stateVars, queryVars, chainVars, dataVars>>
queryOthers ==
    <<coreVars, schedVars, stateVars, paramVars, chainVars, dataVars>>
chainOthers ==
    <<coreVars, schedVars, stateVars, paramVars, queryVars, dataVars>>
dataOthers ==
    <<coreVars, schedVars, stateVars, paramVars, queryVars, chainVars>>

(***************************************************************************)
(* Sequence helpers.                                                       *)
(***************************************************************************)
Range(s) == {s[k] : k \in 1..Len(s)}

SeqsUpTo(S, n) == UNION {[1..k -> S] : k \in 0..n}

(***************************************************************************)
(* TypeAccess<T> (core/access.rs).                                         *)
(***************************************************************************)
\* TypeAccess::default
TypeAccessDefault == [reads_all |-> FALSE, reads_and_writes |-> {}, writes |-> {}]

\* TypeAccess::add_read
AddRead(a, ty) == [a EXCEPT !.reads_and_writes = @ \cup {ty}]

\* TypeAccess::add_write
AddWrite(a, ty) ==
    [a EXCEPT !.reads_and_writes = @ \cup {ty}, !.writes = @ \cup {ty}]

\* TypeAccess::read_all
ReadAll(a) == [a EXCEPT !.reads_all = TRUE]

\* TypeAccess::clear
TypeAccessClear(a) == TypeAccessDefault

\* TypeAccess::extend
TypeAccessExtend(a, other) ==
    [reads_all |-> a.reads_all \/ other.reads_all,
     reads_and_writes |-> a.reads_and_writes \cup other.reads_and_writes,
     writes |-> a.writes \cup other.writes]

\* TypeAccess::is_compatible
IsCompatible(a, other) ==
    IF a.reads_all THEN other.writes = {}
    ELSE IF other.reads_all THEN a.writes = {}
    ELSE /\ a.writes \cap other.reads_and_writes = {}
         /\ a.reads_and_writes \cap other.writes = {}

\* TypeAccess::all_distinct_types; None is modelled by the empty set, which
\* is all the callers make of it (they extend a set with the result)
AllDistinctTypes(a) == IF ~a.reads_all THEN a.reads_and_writes ELSE {}

(***************************************************************************)
(* CondensedTypeAccess (core/access.rs).  A FixedBitSet is the set of the  *)
(* indices of its one bits; indices are positions in the universe slice.   *)
(***************************************************************************)
CondensedDefault == [reads_all |-> FALSE, reads_and_writes |-> {}, writes |-> {}]

\* A variant of condense whose non-reads_all branch does not mirror a write
\* into reads_and_writes.
CondenseNoMirror(a, all_types) ==
    IF a.reads_all
    THEN [reads_all |-> TRUE,
          reads_and_writes |-> {},
          writes |-> {k \in 1..Len(all_types) : all_types[k] \in a.writes}]
    ELSE [reads_all |-> FALSE,
          reads_and_writes |->
              {k \in 1..Len(all_types) :
                  /\ all_types[k] \notin a.writes
                  /\ all_types[k] \in a.reads_and_writes},
          writes |-> {k \in 1..Len(all_types) : all_types[k] \in a.writes}]

\* TypeAccess::condense
Condense(a, all_types) ==
    IF a.reads_all
    THEN [reads_all |-> TRUE,
          reads_and_writes |-> {},
          writes |-> {k \in 1..Len(all_types) : all_types[k] \in a.writes}]
    ELSE [reads_all |-> FALSE,
          reads_and_writes |->
              {k \in 1..Len(all_types) :
                  \/ all_types[k] \in a.writes
                  \/ all_types[k] \in a.reads_and_writes},
          writes |-> {k \in 1..Len(all_types) : all_types[k] \in a.writes}]

\* CondensedTypeAccess::clear
CondensedClear(c) == CondensedDefault

\* A variant of extend that leaves the reads_all flag alone.
CondensedExtendBitsOnly(c, other) ==
    [reads_all |-> c.reads_all,
     reads_and_writes |-> c.reads_and_writes \cup other.reads_and_writes,
     writes |-> c.writes \cup other.writes]

\* CondensedTypeAccess::extend
CondensedExtend(c, other) ==
    [reads_all |-> c.reads_all \/ other.reads_all,
     reads_and_writes |-> c.reads_and_writes \cup other.reads_and_writes,
     writes |-> c.writes \cup other.writes]

\* CondensedTypeAccess::is_compatible
CondensedIsCompatible(c, other) ==
    IF c.reads_all THEN 0 = Cardinality(other.writes)
    ELSE IF other.reads_all THEN 0 = Cardinality(c.writes)
    ELSE /\ c.writes \cap other.reads_and_writes = {}
         /\ c.reads_and_writes \cap other.writes = {}

(***************************************************************************)
(* SpecAccess: two TypeAccess values are built with the public mutators,   *)
(* then is_compatible is evaluated on them and on their condensed forms.   *)
(***************************************************************************)
AccNoOut == [valid |-> FALSE]

AccAddRead ==
    /\ \E ty \in Items :
          \/ acc_a' = AddRead(acc_a, ty) /\ UNCHANGED acc_b
          \/ acc_b' = AddRead(acc_b, ty) /\ UNCHANGED acc_a
    /\ acc_out' = AccNoOut
    /\ UNCHANGED <<topoVars, execVars, buildVars, critVars, laterVars>>

AccAddWrite ==
    /\ \E ty \in Items :
          \/ acc_a' = AddWrite(acc_a, ty) /\ UNCHANGED acc_b
          \/ acc_b' = AddWrite(acc_b, ty) /\ UNCHANGED acc_a
    /\ acc_out' = AccNoOut
    /\ UNCHANGED <<topoVars, execVars, buildVars, critVars, laterVars>>

AccReadAll ==
    /\ \/ acc_a' = ReadAll(acc_a) /\ UNCHANGED acc_b
       \/ acc_b' = ReadAll(acc_b) /\ UNCHANGED acc_a
    /\ acc_out' = AccNoOut
    /\ UNCHANGED <<topoVars, execVars, buildVars, critVars, laterVars>>

AccClear ==
    /\ \/ acc_a' = TypeAccessClear(acc_a) /\ UNCHANGED acc_b
       \/ acc_b' = TypeAccessClear(acc_b) /\ UNCHANGED acc_a
    /\ acc_out' = AccNoOut
    /\ UNCHANGED <<topoVars, execVars, buildVars, critVars, laterVars>>

AccExtend ==
    /\ acc_a' = TypeAccessExtend(acc_a, acc_b)
    /\ UNCHANGED acc_b
    /\ acc_out' = AccNoOut
    /\ UNCHANGED <<topoVars, execVars, buildVars, critVars, laterVars>>

\* a.is_compatible(b), b.is_compatible(a) and the same on the condensed forms
AccCheck ==
    /\ \E universe \in SeqsUpTo(Items, MaxUniverse) :
          LET ca == Condense(acc_a, universe)
              cb == Condense(acc_b, universe)
          IN acc_out' = [valid |-> TRUE,
                         universe |-> universe,
                         ab |-> IsCompatible(acc_a, acc_b),
                         ba |-> IsCompatible(acc_b, acc_a),
                         cond_a |-> ca,
                         cond_b |-> cb,
                         cond_ab |-> CondensedIsCompatible(ca, cb),
                         cond_ba |-> CondensedIsCompatible(cb, ca)]
    /\ UNCHANGED <<acc_a, acc_b>>
    /\ UNCHANGED <<topoVars, execVars, buildVars, critVars, laterVars>>

AccIdle ==
    /\ acc_a = TypeAccessDefault
    /\ acc_b = TypeAccessDefault
    /\ acc_out = AccNoOut

NextAccess ==
    \/ AccAddRead
    \/ AccAddWrite
    \/ AccReadAll
    \/ AccClear
    \/ AccExtend
    \/ AccCheck

(***************************************************************************)
(* topological_sorting (schedule/mod.rs).  A graph is a function from its  *)
(* keys to adjacency lists.  The HashSet iteration order that picks the    *)
(* next unvisited root is the parameter `order`.                           *)
(***************************************************************************)
RECURSIVE CheckIfCyclesAndVisit(_, _, _)
RECURSIVE VisitAdjacent(_, _, _, _)

\* the `for node in graph.get(node).unwrap()` loop of check_if_cycles_and_visit,
\* from position k of the adjacency list on; st.cycle is the `return true`
VisitAdjacent(node, k, graph, st) ==
    IF k > Len(graph[node]) THEN st
    ELSE LET r == CheckIfCyclesAndVisit(graph[node][k], graph, st)
         IN IF r.cycle THEN r ELSE VisitAdjacent(node, k + 1, graph, r)

\* check_if_cycles_and_visit, the inner function of topological_sorting
CheckIfCyclesAndVisit(node, graph, st) ==
    IF node \in st.current THEN [st EXCEPT !.cycle = TRUE]
    ELSE IF node \notin st.unvisited THEN st
    ELSE LET entered == [st EXCEPT !.unvisited = @ \ {node},
                                   !.current = @ \cup {node}]
             r == VisitAdjacent(node, 1, graph, entered)
         IN IF r.cycle THEN r
            ELSE [r EXCEPT !.sorted = Append(@, node),
                           !.current = @ \ {node}]

RECURSIVE TopoLoop(_, _, _)
\* the `while let Some(node) = unvisited.iter().next()` loop
TopoLoop(graph, order, st) ==
    IF st.unvisited = {} THEN [kind |-> "Sorted", sorted |-> st.sorted]
    ELSE LET k == CHOOSE j \in 1..Len(order) :
                      /\ order[j] \in st.unvisited
                      /\ \A i \in 1..(j - 1) : order[i] \notin st.unvisited
             r == CheckIfCyclesAndVisit(order[k], graph, st)
         IN IF r.cycle THEN [kind |-> "FoundCycle", cycle |-> r.current]
            ELSE TopoLoop(graph, order, r)

\* A variant of topological_sorting that never reports a cycle.
TopologicalSortingNoCycle(graph, order) ==
    [kind |-> "Sorted", sorted |-> order]

\* topological_sorting
TopologicalSorting(graph, order) ==
    TopoLoop(graph, order,
             [cycle |-> FALSE, sorted |-> <<>>,
              unvisited |-> DOMAIN graph, current |-> {}])

\* the iteration orders of a HashSet holding the set S
Orders(S) ==
    {o \in [1..Cardinality(S) -> S] : \A i, j \in DOMAIN o : i # j => o[i] # o[j]}

\* the graphs in which every node of an adjacency list is also a key
Graphs ==
    UNION {[keys -> SeqsUpTo(keys, MaxAdj)] : keys \in SUBSET Nodes}

TopoNoOut == [kind |-> "none"]

TopoSort ==
    /\ topo_out = TopoNoOut
    /\ \E order \in Orders(DOMAIN topo_graph) :
          topo_out' = TopologicalSorting(topo_graph, order)
    /\ UNCHANGED topo_graph
    /\ UNCHANGED <<accVars, execVars, buildVars, critVars, laterVars>>

\* the caller drops the result; the graph may be sorted again
TopoReset ==
    /\ topo_out # TopoNoOut
    /\ topo_out' = TopoNoOut
    /\ UNCHANGED topo_graph
    /\ UNCHANGED <<accVars, execVars, buildVars, critVars, laterVars>>

TopoIdle ==
    /\ topo_graph = << >>
    /\ topo_out = TopoNoOut

NextTopo ==
    \/ TopoSort
    \/ TopoReset

(***************************************************************************)
(* Graph reachability, used to state acyclicity.                           *)
(***************************************************************************)
RECURSIVE ReachableWithin(_, _, _)
\* the nodes reachable from the set S by one to n edges
ReachableWithin(graph, S, n) ==
    IF n = 0 THEN {}
    ELSE LET next == UNION {Range(graph[m]) : m \in S}
         IN next \cup ReachableWithin(graph, next, n - 1)

\* some node reaches itself (a self-loop counts)
HasCycle(graph) ==
    \E n \in DOMAIN graph :
        n \in ReachableWithin(graph, {n}, Cardinality(DOMAIN graph))

(***************************************************************************)
(* The stage handed to the executor (schedule/stage.rs).  Parallel system  *)
(* i of the stage is entry i of the executor's `parallel` list, which is   *)
(* built set by set; parallel_dependencies maps a system to the systems    *)
(* it was declared `after`.                                                *)
(***************************************************************************)
ShouldRunValues == {"Yes", "No", "YesAndLoop", "NoAndLoop"}

\* the `Yes | YesAndLoop` pattern of the executors
WillRun(result) == result \in {"Yes", "YesAndLoop"}

\* the TypeAccess values the public mutators can build over StageItems
StageAccesses ==
    {a \in [reads_all : BOOLEAN,
            reads_and_writes : SUBSET StageItems,
            writes : SUBSET StageItems] : a.writes \subseteq a.reads_and_writes}

\* SystemStage::parallel_dependencies
ParallelDependencies == [i \in DOMAIN parallel_systems |-> parallel_systems[i].dependencies]

\* SystemStage::at_start: the exclusive systems of the stage, by set
AtStartOrder == <<[set |-> 1, system |-> 1], [set |-> 2, system |-> 1]>>

\* SystemStage::before_commands
BeforeCommandsOrder == <<[set |-> 1, system |-> 2]>>

\* SystemStage::at_end
AtEndOrder == <<[set |-> 2, system |-> 2], [set |-> 1, system |-> 3]>>

\* World::archetypes_generation; no system of the modelled stage changes
\* the archetypes
WorldArchetypesGeneration == "gen0"

(***************************************************************************)
(* ParallelSystemStageExecutor (schedule/stage_executor_parallel.rs).      *)
(***************************************************************************)
RECURSIVE SetToSeq(_)
\* HashSet::drain().collect(): the items of the set in one fixed order
SetToSeq(S) ==
    IF S = {} THEN <<>>
    ELSE LET m == CHOOSE x \in S : \A y \in S : x <= y
         IN <<m>> \o SetToSeq(S \ {m})

RECURSIVE DependantsFrom(_, _, _)
\* the dependants list rebuild_scheduling_data pushes for `dependency`:
\* one entry per occurrence of it in a dependant's dependency list
DependantsFrom(dependencies, dependency, dependant) ==
    IF dependant > Len(dependencies) THEN <<>>
    ELSE LET n == Cardinality({k \in DOMAIN dependencies[dependant] :
                                   dependencies[dependant][k] = dependency})
         IN [k \in 1..n |-> dependant]
                \o DependantsFrom(dependencies, dependency, dependant + 1)

\* rebuild_scheduling_data: the new `parallel` list
RebuildSchedulingData(systems, dependencies) ==
    LET all_archetype_components ==
            SetToSeq(UNION {AllDistinctTypes(systems[i].archetype_component_access) :
                                i \in DOMAIN systems})
        all_resource_types ==
            SetToSeq(UNION {AllDistinctTypes(systems[i].resource_access) :
                                i \in DOMAIN systems})
    IN [i \in DOMAIN systems |->
           [index |-> i,
            was_accessed_unsafely |-> FALSE,
            dependants |-> DependantsFrom(dependencies, i, 1),
            dependencies_total |-> Len(dependencies[i]),
            dependencies_now |-> 0,
            archetype_component_access |->
                Condense(systems[i].archetype_component_access, all_archetype_components),
            resource_access |->
                Condense(systems[i].resource_access, all_resource_types)]]

\* update_parallel_access: recondenses the archetype component bitsets of
\* the systems whose condensed access is not reads_all
UpdateParallelAccess(par, systems) ==
    LET refreshed == {i \in DOMAIN par : ~par[i].archetype_component_access.reads_all}
        all_archetype_components ==
            SetToSeq(UNION {AllDistinctTypes(systems[i].archetype_component_access) :
                                i \in refreshed})
    IN [i \in DOMAIN par |->
           IF i \in refreshed
           THEN [par[i] EXCEPT !.archetype_component_access =
                    Condense(systems[i].archetype_component_access,
                             all_archetype_components)]
           ELSE par[i]]

\* A variant of can_start_now that refuses every system.
CanStartNowNever(system, active_resource, active_archetype_component) == FALSE

\* can_start_now
CanStartNow(system, active_resource, active_archetype_component) ==
    /\ CondensedIsCompatible(system.resource_access, active_resource)
    /\ CondensedIsCompatible(system.archetype_component_access,
                             active_archetype_component)

RECURSIVE UpdateCountersAndQueueEager(_, _, _, _)
\* A variant of update_counters_and_queue that queues a dependant on the
\* first completed dependency.
UpdateCountersAndQueueEager(par, q, sr, scratch) ==
    IF scratch = <<>> THEN [parallel |-> par, queued |-> q, underflow |-> FALSE]
    ELSE LET index == Head(scratch)
         IN IF index \in sr
            THEN UpdateCountersAndQueueEager(
                     [par EXCEPT ![index].dependencies_now =
                                     IF @ = 0 THEN 0 ELSE @ - 1],
                     q \cup {index}, sr, Tail(scratch))
            ELSE UpdateCountersAndQueueEager(par, q, sr, Tail(scratch))

RECURSIVE UpdateCountersAndQueueUnchecked(_, _, _, _)
\* A variant of update_counters_and_queue without the should_run test.
UpdateCountersAndQueueUnchecked(par, q, sr, scratch) ==
    IF scratch = <<>> THEN [parallel |-> par, queued |-> q, underflow |-> FALSE]
    ELSE LET index == Head(scratch)
         IN IF par[index].dependencies_now = 0
            THEN [parallel |-> par, queued |-> q, underflow |-> TRUE]
            ELSE LET now == par[index].dependencies_now - 1
                 IN UpdateCountersAndQueueUnchecked(
                        [par EXCEPT ![index].dependencies_now = now],
                        IF now = 0 THEN q \cup {index} ELSE q,
                        sr, Tail(scratch))

RECURSIVE UpdateCountersAndQueue(_, _, _, _)
\* update_counters_and_queue, draining `scratch` (dependants_scratch);
\* underflow is the `dependencies_now -= 1` on a counter that is 0
UpdateCountersAndQueue(par, q, sr, scratch) ==
    IF scratch = <<>> THEN [parallel |-> par, queued |-> q, underflow |-> FALSE]
    ELSE LET index == Head(scratch)
         IN IF index \in sr
            THEN IF par[index].dependencies_now = 0
                 THEN [parallel |-> par, queued |-> q, underflow |-> TRUE]
                 ELSE LET now == par[index].dependencies_now - 1
                      IN UpdateCountersAndQueue(
                             [par EXCEPT ![index].dependencies_now = now],
                             IF now = 0 THEN q \cup {index} ELSE q,
                             sr, Tail(scratch))
            ELSE UpdateCountersAndQueue(par, q, sr, Tail(scratch))

RECURSIVE DependantsOfAll(_, _)
\* dependants_scratch after extending it with the dependants of each
\* system of the sequence `finished`
DependantsOfAll(par, finished) ==
    IF finished = <<>> THEN <<>>
    ELSE par[Head(finished)].dependants \o DependantsOfAll(par, Tail(finished))

RECURSIVE SignalQueued(_, _)
\* the first loop of run_thread_agnostic from index i on: every queued
\* thread-agnostic system that can start now is signalled, marked running
\* and its access appended to the active access
SignalQueued(i, st) ==
    IF i > Len(parallel) THEN st
    ELSE IF /\ i \in queued \ thread_local
            /\ CanStartNow(parallel[i], st.active_resource_access,
                           st.active_archetype_component_access)
         THEN SignalQueued(i + 1,
                  [running |-> st.running \cup {i},
                   started |-> st.started \cup {i},
                   active_archetype_component_access |->
                       CondensedExtend(st.active_archetype_component_access,
                                       parallel[i].archetype_component_access),
                   active_resource_access |->
                       CondensedExtend(st.active_resource_access,
                                       parallel[i].resource_access)])
         ELSE SignalQueued(i + 1, st)

RECURSIVE ExtendAll(_, _, _)
\* the active access rebuilt from the systems of the set `indices`
ExtendAll(acc, par_access, indices) ==
    IF indices = {} THEN acc
    ELSE LET i == CHOOSE x \in indices : \A y \in indices : x <= y
         IN ExtendAll(CondensedExtend(acc, par_access[i]), par_access, indices \ {i})

\* A variant of the loop body of execute_stage that applies the buffers
\* before it runs the before_commands systems.
NextPositionBuffersFirst(position) ==
    CASE position = "at_start" -> "prepare"
      [] position = "join" -> "apply_buffers"
      [] position = "apply_buffers" -> "before_commands"
      [] position = "before_commands" -> "at_end"
      [] position = "at_end" -> "reevaluate"

\* the statement order of the loop body of execute_stage: what follows the
\* at_start systems, the task scope, the before_commands systems, the
\* apply_buffers loop and the at_end systems
NextPosition(position) ==
    CASE position = "at_start" -> "prepare"
      [] position = "join" -> "before_commands"
      [] position = "before_commands" -> "apply_buffers"
      [] position = "apply_buffers" -> "at_end"
      [] position = "at_end" -> "reevaluate"

\* appends a phase to the observed phases of the outer iteration
AddPhase(ph, name) ==
    IF ph # <<>> /\ ph[Len(ph)] = name THEN ph ELSE Append(ph, name)

NoRuns == [i \in Systems |-> 0]
NoTasks == [i \in Systems |-> "none"]

\* the next exclusive system of `order` after position pos whose set runs
\* in this iteration, 0 if there is none (run_systems_sequence)
NextExclusive(order, pos) ==
    LET later == {k \in (pos + 1)..Len(order) :
                      WillRun(system_set_should_run[order[k].set])}
    IN IF later = {} THEN 0
       ELSE CHOOSE k \in later : \A j \in later : k <= j

\* RunCriteria::should_run of set s: Yes when no criteria system is set,
\* otherwise whatever the criteria system returns
ShouldRunResults(s) == IF run_criteria[s] THEN ShouldRunValues ELSE {"Yes"}

\* evaluate_run_criteria / reevaluate_run_criteria: whether some set has
\* work in the coming outer iteration
HasWork(results) == \E s \in DOMAIN results : WillRun(results[s])

\* SystemStage::run_once up to the first exclusive system of execute_stage:
\* the criteria of the sets are evaluated, execute_stage returns at once if
\* no set has work (and run_once clears the dirty bits), otherwise the
\* scheduling data is rebuilt if some set is dirty
ExecuteStage ==
    /\ pc = "idle"
    /\ \E results \in [Sets -> ShouldRunValues] :
          /\ \A s \in Sets : results[s] \in ShouldRunResults(s)
          /\ system_set_should_run' = results
          /\ IF ~HasWork(results)
             THEN /\ is_dirty' = FALSE
                  /\ pc' = "idle"
                  /\ UNCHANGED <<parallel, thread_local, last_archetypes_generation>>
             ELSE /\ pc' = "at_start"
                  /\ UNCHANGED is_dirty
                  /\ IF is_dirty
                     THEN /\ parallel' = RebuildSchedulingData(parallel_systems,
                                                                ParallelDependencies)
                          /\ thread_local' =
                                 {i \in DOMAIN parallel_systems :
                                      parallel_systems[i].thread_local}
                          /\ last_archetypes_generation' = WorldArchetypesGeneration
                     ELSE UNCHANGED <<parallel, thread_local,
                                      last_archetypes_generation>>
    /\ ran' = NoRuns
    /\ phases' = <<>>
    /\ completed' = {}
    /\ UNCHANGED <<parallel_systems, run_criteria, should_run, queued, running,
                   active_archetype_component_access, active_resource_access,
                   taskVars, seq_pos, tl_index, loop_mark, loop_started>>
    /\ UNCHANGED <<accVars, topoVars, buildVars, critVars, laterVars>>

\* run_systems_sequence(at_start), one exclusive system at a time, then the
\* archetypes generation check of execute_stage
RunAtStart ==
    /\ pc = "at_start"
    /\ LET k == NextExclusive(AtStartOrder, seq_pos)
       IN IF k # 0
          THEN /\ seq_pos' = k
               /\ phases' = AddPhase(phases, "at_start")
               /\ UNCHANGED <<pc, parallel, last_archetypes_generation>>
          ELSE /\ seq_pos' = 0
               /\ pc' = NextPosition("at_start")
               /\ UNCHANGED phases
               /\ IF last_archetypes_generation # WorldArchetypesGeneration
                  THEN /\ parallel' = UpdateParallelAccess(parallel, parallel_systems)
                       /\ last_archetypes_generation' = WorldArchetypesGeneration
                  ELSE UNCHANGED <<parallel, last_archetypes_generation>>
    /\ UNCHANGED <<stageVars, system_set_should_run, should_run, thread_local,
                   queued, running, active_archetype_component_access,
                   active_resource_access, taskVars, tl_index, ran, completed,
                   loop_mark, loop_started>>
    /\ UNCHANGED <<accVars, topoVars, buildVars, critVars, laterVars>>

\* prepare_parallel_systems, with the spawn_system_task calls it makes
PrepareParallelSystems ==
    /\ pc = "prepare"
    /\ LET sr == {i \in DOMAIN parallel :
                      WillRun(system_set_should_run[parallel_systems[i].set])}
       IN /\ should_run' = sr
          /\ parallel' =
                 [i \in DOMAIN parallel |->
                     [parallel[i] EXCEPT
                         !.was_accessed_unsafely = (i \in sr \ thread_local),
                         !.dependencies_now =
                             IF i \in sr /\ parallel[i].dependencies_total # 0
                             THEN parallel[i].dependencies_total
                             ELSE @]]
          /\ task' = [i \in Systems |->
                         IF i \in sr \ thread_local THEN "waiting" ELSE "none"]
          /\ queued' = queued \cup {i \in sr : parallel[i].dependencies_total = 0}
    /\ pc' = "loop"
    /\ completed' = {}
    /\ loop_mark' = FALSE
    /\ loop_started' = {}
    /\ UNCHANGED <<stageVars, last_archetypes_generation, system_set_should_run,
                   thread_local, running, active_archetype_component_access,
                   active_resource_access, start_signals, finish_channel,
                   seq_pos, tl_index, ran, phases>>
    /\ UNCHANGED <<accVars, topoVars, buildVars, critVars, laterVars>>

\* the head of the coordinator loop of execute_stage and run_a_thread_local
\* up to the run_unsafe call of the thread-local system it picks
RunAThreadLocal ==
    /\ pc = "loop"
    /\ loop_mark' = (running = {} /\ queued # {})
    /\ IF queued \cup running = {}
       THEN /\ pc' = "join"
            /\ loop_started' = {}
            /\ UNCHANGED <<parallel, tl_index, phases>>
       ELSE LET candidates ==
                    {i \in queued \cap thread_local :
                         CanStartNow(parallel[i], active_resource_access,
                                     active_archetype_component_access)}
            IN IF candidates = {}
               THEN /\ pc' = "thread_agnostic"
                    /\ loop_started' = {}
                    /\ UNCHANGED <<parallel, tl_index, phases>>
               ELSE LET index == CHOOSE i \in candidates :
                                     \A j \in candidates : i <= j
                    IN IF parallel[index].was_accessed_unsafely
                       THEN /\ pc' = "panic"
                            /\ loop_started' = {}
                            /\ UNCHANGED <<parallel, tl_index, phases>>
                       ELSE /\ parallel' = [parallel EXCEPT
                                   ![index].was_accessed_unsafely = TRUE]
                            /\ tl_index' = index
                            /\ pc' = "thread_local"
                            /\ loop_started' = {index}
                            /\ phases' = AddPhase(phases, "parallel")
    /\ UNCHANGED <<stageVars, last_archetypes_generation, system_set_should_run,
                   should_run, thread_local, queued, running,
                   active_archetype_component_access, active_resource_access,
                   taskVars, seq_pos, ran, completed>>
    /\ UNCHANGED <<accVars, topoVars, buildVars, critVars, laterVars>>

\* the rest of run_a_thread_local: the system's run_unsafe returns, the
\* system leaves queued and its dependants' counters are updated
ThreadLocalFinish ==
    /\ pc = "thread_local"
    /\ LET res == UpdateCountersAndQueue(parallel, queued \ {tl_index}, should_run,
                                         parallel[tl_index].dependants)
       IN /\ parallel' = res.parallel
          /\ queued' = res.queued
          /\ pc' = IF res.underflow THEN "panic" ELSE "thread_agnostic"
    /\ ran' = [ran EXCEPT ![tl_index] = IF @ < 2 THEN @ + 1 ELSE @]
    /\ completed' = completed \cup {tl_index}
    /\ tl_index' = 0
    /\ UNCHANGED <<stageVars, last_archetypes_generation, system_set_should_run,
                   should_run, thread_local, running,
                   active_archetype_component_access, active_resource_access,
                   taskVars, seq_pos, phases, loop_mark, loop_started>>
    /\ UNCHANGED <<accVars, topoVars, buildVars, critVars, laterVars>>

\* run_thread_agnostic up to its wait on the finish channel; the send on a
\* start channel (capacity 1) blocks while an earlier signal is unread
SignalThreadAgnostic ==
    /\ pc = "thread_agnostic"
    /\ LET st == SignalQueued(1,
                     [running |-> running, started |-> {},
                      active_archetype_component_access |->
                          active_archetype_component_access,
                      active_resource_access |-> active_resource_access])
       IN /\ st.started \cap start_signals = {}
          /\ start_signals' = start_signals \cup st.started
          /\ running' = st.running
          /\ active_archetype_component_access' =
                 st.active_archetype_component_access
          /\ active_resource_access' = st.active_resource_access
          /\ queued' = queued \ st.running
          /\ loop_started' = loop_started \cup st.started
          /\ pc' = IF st.running # {} THEN "wait" ELSE "loop"
    /\ UNCHANGED <<stageVars, last_archetypes_generation, system_set_should_run,
                   parallel, should_run, thread_local, finish_channel, task,
                   seq_pos, tl_index, ran, completed, phases, loop_mark>>
    /\ UNCHANGED <<accVars, topoVars, buildVars, critVars, laterVars>>

\* a spawned system task receives its start signal and enters run_unsafe
TaskStart ==
    /\ \E i \in Systems :
          /\ task[i] = "waiting"
          /\ i \in start_signals
          /\ task' = [task EXCEPT ![i] = "executing"]
          /\ start_signals' = start_signals \ {i}
    /\ phases' = AddPhase(phases, "parallel")
    /\ UNCHANGED <<stageVars, executorVars, finish_channel, coordVars, ran,
                   completed, loop_mark, loop_started>>
    /\ UNCHANGED <<accVars, topoVars, buildVars, critVars, laterVars>>

\* a system task's run_unsafe returns and it sends its index on the finish
\* channel
TaskFinish ==
    /\ \E i \in Systems :
          /\ task[i] = "executing"
          /\ task' = [task EXCEPT ![i] = "done"]
          /\ finish_channel' = Append(finish_channel, i)
          /\ ran' = [ran EXCEPT ![i] = IF @ < 2 THEN @ + 1 ELSE @]
    /\ UNCHANGED <<stageVars, executorVars, start_signals, coordVars,
                   completed, phases, loop_mark, loop_started>>
    /\ UNCHANGED <<accVars, topoVars, buildVars, critVars, laterVars>>

\* the rest of run_thread_agnostic: the coordinator receives the finished
\* systems, updates the counters and rebuilds the active access
ReceiveFinished ==
    /\ pc = "wait"
    /\ finish_channel # <<>>
    /\ LET still == running \ Range(finish_channel)
           res == UpdateCountersAndQueue(parallel, queued, should_run,
                                         DependantsOfAll(parallel, finish_channel))
       IN /\ running' = still
          /\ parallel' = res.parallel
          /\ queued' = res.queued
          /\ pc' = IF res.underflow THEN "panic" ELSE "loop"
          /\ active_archetype_component_access' =
                 ExtendAll(CondensedDefault,
                           [i \in DOMAIN parallel |->
                               parallel[i].archetype_component_access], still)
          /\ active_resource_access' =
                 ExtendAll(CondensedDefault,
                           [i \in DOMAIN parallel |-> parallel[i].resource_access],
                           still)
    /\ completed' = completed \cup Range(finish_channel)
    /\ finish_channel' = <<>>
    /\ UNCHANGED <<stageVars, last_archetypes_generation, system_set_should_run,
                   should_run, thread_local, start_signals, task, seq_pos,
                   tl_index, ran, phases, loop_mark, loop_started>>
    /\ UNCHANGED <<accVars, topoVars, buildVars, critVars, laterVars>>

\* A variant of the end of the task scope that does not wait for the tasks.
ScopeJoinedAlways == TRUE

\* the condition under which the task scope of execute_stage returns:
\* every task spawned in it has completed
ScopeJoined == \A i \in Systems : task[i] \in {"none", "done"}

\* the end of compute_pool.scope in execute_stage
JoinScope ==
    /\ pc = "join"
    /\ ScopeJoined
    /\ pc' = NextPosition("join")
    /\ task' = [i \in Systems |-> IF task[i] = "done" THEN "none" ELSE task[i]]
    /\ UNCHANGED <<stageVars, executorVars, start_signals, finish_channel,
                   seq_pos, tl_index, obsVars>>
    /\ UNCHANGED <<accVars, topoVars, buildVars, critVars, laterVars>>

\* run_systems_sequence(before_commands), one exclusive system at a time
RunBeforeCommands ==
    /\ pc = "before_commands"
    /\ LET k == NextExclusive(BeforeCommandsOrder, seq_pos)
       IN IF k # 0
          THEN /\ seq_pos' = k
               /\ phases' = AddPhase(phases, "before_commands")
               /\ UNCHANGED pc
          ELSE /\ seq_pos' = 0
               /\ pc' = NextPosition("before_commands")
               /\ UNCHANGED phases
    /\ UNCHANGED <<stageVars, executorVars, taskVars, tl_index, ran, completed,
                   loop_mark, loop_started>>
    /\ UNCHANGED <<accVars, topoVars, buildVars, critVars, laterVars>>

\* the apply_buffers loop of execute_stage
ApplyBuffers ==
    /\ pc = "apply_buffers"
    /\ phases' = IF \E i \in DOMAIN parallel :
                        WillRun(system_set_should_run[parallel_systems[i].set])
                 THEN AddPhase(phases, "apply_buffers")
                 ELSE phases
    /\ pc' = NextPosition("apply_buffers")
    /\ UNCHANGED <<stageVars, executorVars, taskVars, seq_pos, tl_index, ran,
                   completed, loop_mark, loop_started>>
    /\ UNCHANGED <<accVars, topoVars, buildVars, critVars, laterVars>>

\* run_systems_sequence(at_end), one exclusive system at a time
RunAtEnd ==
    /\ pc = "at_end"
    /\ LET k == NextExclusive(AtEndOrder, seq_pos)
       IN IF k # 0
          THEN /\ seq_pos' = k
               /\ phases' = AddPhase(phases, "at_end")
               /\ UNCHANGED pc
          ELSE /\ seq_pos' = 0
               /\ pc' = NextPosition("at_end")
               /\ UNCHANGED phases
    /\ UNCHANGED <<stageVars, executorVars, taskVars, tl_index, ran, completed,
                   loop_mark, loop_started>>
    /\ UNCHANGED <<accVars, topoVars, buildVars, critVars, laterVars>>

\* the results reevaluate_run_criteria can leave for the cached result of
\* set s: Yes becomes No, a looping result is replaced by a new evaluation
Reevaluated(s, result) ==
    IF result \in {"YesAndLoop", "NoAndLoop"} THEN ShouldRunResults(s) ELSE {"No"}

\* reevaluate_run_criteria and the end of the outer loop of execute_stage;
\* when execute_stage returns, run_once clears the dirty bits
ReevaluateRunCriteria ==
    /\ pc = "reevaluate"
    /\ \E results \in [Sets -> ShouldRunValues] :
          /\ \A s \in Sets : results[s] \in Reevaluated(s, system_set_should_run[s])
          /\ system_set_should_run' = results
          /\ IF HasWork(results)
             THEN /\ pc' = "at_start"
                  /\ UNCHANGED is_dirty
             ELSE /\ pc' = "idle"
                  /\ is_dirty' = FALSE
    /\ ran' = NoRuns
    /\ phases' = <<>>
    /\ completed' = {}
    /\ loop_mark' = FALSE
    /\ loop_started' = {}
    /\ UNCHANGED <<parallel_systems, run_criteria, last_archetypes_generation,
                   parallel, should_run, thread_local, queued, running,
                   active_archetype_component_access, active_resource_access,
                   taskVars, seq_pos, tl_index>>
    /\ UNCHANGED <<accVars, topoVars, buildVars, critVars, laterVars>>

\* a stage lists its parallel systems set by set and its dependency graph
\* is acyclic
WellFormedStage(c) ==
    /\ \A i \in DOMAIN c : (i + 1) \in DOMAIN c => c[i].set <= c[i + 1].set
    /\ ~HasCycle([i \in DOMAIN c |-> c[i].dependencies])

\* the default set of a stage has no run criterion, the added sets have one
AddedSetsGated == [s \in Sets |-> s # 1]

\* no set has a run criterion
NoSetGated == [s \in Sets |-> FALSE]

\* every set has a run criterion
EverySetGated == [s \in Sets |-> TRUE]

\* stages of NumSys systems with any sets, thread-local flags and
\* dependencies, and no declared access
OrderingConfigs ==
    {c \in [Systems -> [set : Sets,
                        thread_local : BOOLEAN,
                        dependencies : SeqsUpTo(Systems, MaxDeps),
                        resource_access : {TypeAccessDefault},
                        archetype_component_access : {TypeAccessDefault}]] :
        WellFormedStage(c)}

\* stages of two independent systems with any declared accesses and
\* thread-local flags
PairAccessConfigs ==
    [1..2 -> [set : {1},
              thread_local : BOOLEAN,
              dependencies : {<<>>},
              resource_access : StageAccesses,
              archetype_component_access : StageAccesses]]

\* stages in which thread-local system 2 is declared after system 1 and has
\* any declared resource access, next to thread-agnostic systems with any
\* declared resource access
ThreadLocalAccessConfigs ==
    {[i \in Systems |->
         [set |-> 1,
          thread_local |-> (i = 2),
          dependencies |-> IF i = 2 THEN <<1>> ELSE <<>>,
          resource_access |-> CASE i = 1 -> TypeAccessDefault
                                [] i = 2 -> a
                                [] OTHER -> b,
          archetype_component_access |-> TypeAccessDefault]] :
        a \in StageAccesses, b \in StageAccesses}

\* stages of NumSys independent thread-agnostic systems with any declared
\* resource accesses
ResourceAccessConfigs ==
    [Systems -> [set : {1},
                 thread_local : {FALSE},
                 dependencies : {<<>>},
                 resource_access : StageAccesses,
                 archetype_component_access : {TypeAccessDefault}]]

\* stages of NumSys independent systems without declared access, in any sets
GatedConfigs ==
    {c \in [Systems -> [set : Sets,
                        thread_local : BOOLEAN,
                        dependencies : {<<>>},
                        resource_access : {TypeAccessDefault},
                        archetype_component_access : {TypeAccessDefault}]] :
        WellFormedStage(c)}

\* the stages under test
StageConfigs ==
    ([systems : OrderingConfigs, run_criteria : {AddedSetsGated}])
        \cup ([systems : PairAccessConfigs, run_criteria : {NoSetGated}])
        \cup ([systems : ResourceAccessConfigs, run_criteria : {NoSetGated}])
        \cup ([systems : ThreadLocalAccessConfigs, run_criteria : {NoSetGated}])
        \cup ([systems : GatedConfigs, run_criteria : {EverySetGated}])

\* ParallelSystemStageExecutor::default and a stage whose systems have
\* just been added
InitStage ==
    /\ \E c \in StageConfigs :
          /\ parallel_systems = c.systems
          /\ run_criteria = c.run_criteria
    /\ is_dirty = TRUE
    /\ last_archetypes_generation = "MAX"
    /\ system_set_should_run = <<>>
    /\ parallel = <<>>
    /\ should_run = {}
    /\ thread_local = {}
    /\ queued = {}
    /\ running = {}
    /\ active_archetype_component_access = CondensedDefault
    /\ active_resource_access = CondensedDefault
    /\ start_signals = {}
    /\ finish_channel = <<>>
    /\ task = NoTasks
    /\ pc = "idle"
    /\ seq_pos = 0
    /\ tl_index = 0
    /\ ran = NoRuns
    /\ completed = {}
    /\ phases = <<>>
    /\ loop_mark = FALSE
    /\ loop_started = {}

\* the executor variables outside Spec
ExecIdle ==
    /\ parallel_systems = <<>>
    /\ run_criteria = <<>>
    /\ is_dirty = FALSE
    /\ last_archetypes_generation = "MAX"
    /\ system_set_should_run = <<>>
    /\ parallel = <<>>
    /\ should_run = {}
    /\ thread_local = {}
    /\ queued = {}
    /\ running = {}
    /\ active_archetype_component_access = CondensedDefault
    /\ active_resource_access = CondensedDefault
    /\ start_signals = {}
    /\ finish_channel = <<>>
    /\ task = NoTasks
    /\ pc = "idle"
    /\ seq_pos = 0
    /\ tl_index = 0
    /\ ran = NoRuns
    /\ completed = {}
    /\ phases = <<>>
    /\ loop_mark = FALSE
    /\ loop_started = {}

(***************************************************************************)
(* Properties of TypeAccess and CondensedTypeAccess (SpecAccess).          *)
(***************************************************************************)
\* the items a side reads: every item when reads_all is set
ReadItems(a, all_items) == IF a.reads_all THEN all_items ELSE a.reads_and_writes

\* neither side writes an item the other reads or writes
ConflictFree(a, b, all_items) ==
    /\ a.writes \cap (ReadItems(b, all_items) \cup b.writes) = {}
    /\ b.writes \cap (ReadItems(a, all_items) \cup a.writes) = {}

NeitherWritesWhatOtherTouches(a, b) == ConflictFree(a, b, Items)

\* the universe slice lists every item read or written by a or b
UniverseCovers(universe, a, b) ==
    (a.reads_and_writes \cup a.writes \cup b.reads_and_writes \cup b.writes)
        \subseteq Range(universe)

\* C8: a.is_compatible(b) is true iff neither side writes an item the other
\* reads or writes, a reads_all side counting as reading every item; the
\* same for the condensed forms (against a universe listing every item).
C8_IsCompatibleIffNoConflict ==
    acc_out.valid =>
        /\ acc_out.ab = NeitherWritesWhatOtherTouches(acc_a, acc_b)
        /\ UniverseCovers(acc_out.universe, acc_a, acc_b) =>
               acc_out.cond_ab = NeitherWritesWhatOtherTouches(acc_a, acc_b)

\* C9: when the universe lists every item read or written by a or b,
\* a.condense(universe).is_compatible(b.condense(universe)) equals
\* a.is_compatible(b), in both argument orders.
C9_CondenseKeepsCompatibility ==
    (acc_out.valid /\ UniverseCovers(acc_out.universe, acc_a, acc_b)) =>
        /\ acc_out.cond_ab = acc_out.ab
        /\ acc_out.cond_ba = acc_out.ba

\* C9 witness: a covering universe, a write-write conflict behind reads_all
\* on one side, and the condensed check rejecting the pair
C9_Witness ==
    /\ acc_out.valid
    /\ UniverseCovers(acc_out.universe, acc_a, acc_b)
    /\ acc_b.reads_all /\ ~acc_a.reads_all
    /\ acc_a.writes # {} /\ acc_b.writes # {}
    /\ Len(acc_out.universe) >= 2
    /\ ~acc_out.cond_ab

(***************************************************************************)
(* Properties of topological_sorting (SpecTopo).                           *)
(***************************************************************************)
\* position of node n in the sequence xs
PositionIn(xs, n) == CHOOSE k \in 1..Len(xs) : xs[k] = n

\* C10: topological_sorting returns Sorted(xs) iff the graph has no cycle,
\* and then xs holds every key exactly once, each node after all nodes of
\* its adjacency list; otherwise it returns FoundCycle.
C10_TopologicalSorting ==
    topo_out.kind # "none" =>
        /\ topo_out.kind \in {"Sorted", "FoundCycle"}
        /\ (topo_out.kind = "Sorted") = ~HasCycle(topo_graph)
        /\ topo_out.kind = "Sorted" =>
              /\ Len(topo_out.sorted) = Cardinality(DOMAIN topo_graph)
              /\ Range(topo_out.sorted) = DOMAIN topo_graph
              /\ \A n \in DOMAIN topo_graph :
                    \A m \in Range(topo_graph[n]) :
                        PositionIn(topo_out.sorted, m) < PositionIn(topo_out.sorted, n)

\* C10 witness: a chain of dependencies over all nodes was sorted
C10_Witness ==
    /\ topo_out.kind = "Sorted"
    /\ DOMAIN topo_graph = Nodes
    /\ Cardinality({n \in Nodes : topo_graph[n] # <<>>}) >= 2
    /\ topo_graph[topo_out.sorted[1]] = <<>>

(***************************************************************************)
(* Properties of the parallel executor (Spec).                             *)
(***************************************************************************)
\* parallel system i is executing: its task is inside run_unsafe, or it is
\* the thread-local system running on the coordinator thread
Executing(i) == task[i] = "executing" \/ tl_index = i

\* the coordinator has processed the completion of system u in this pass:
\* u ran, and its finish message (if any) has been received
CompletionProcessed(u) ==
    /\ ran[u] >= 1
    /\ tl_index # u
    /\ task[u] # "executing"
    /\ u \notin Range(finish_channel)

\* an exclusive system is executing
ExclusiveExecuting ==
    pc \in {"at_start", "before_commands", "at_end"} /\ seq_pos # 0

\* the positions of the coordinator inside a parallel pass
PassPositions ==
    {"prepare", "loop", "thread_local", "thread_agnostic", "wait", "join"}

\* the positions of the coordinator after the parallel pass of an iteration
AfterPassPositions == {"before_commands", "apply_buffers", "at_end", "reevaluate"}

\* C1: no two parallel systems execute at the same time unless their
\* declared resource accesses and their declared archetype-component
\* accesses are compatible (neither writes an item the other reads or
\* writes).
C1_ConcurrentSystemsCompatible ==
    \A i, j \in DOMAIN parallel_systems :
        (i # j /\ Executing(i) /\ Executing(j)) =>
            /\ ConflictFree(parallel_systems[i].resource_access,
                            parallel_systems[j].resource_access, StageItems)
            /\ ConflictFree(parallel_systems[i].archetype_component_access,
                            parallel_systems[j].archetype_component_access,
                            StageItems)

\* C2: a system v declared after u is queued, signalled or executing only
\* once u has run in this pass and the coordinator has processed u's
\* completion.
C2_DependantWaitsForDependency ==
    \A v \in DOMAIN parallel_systems :
        (v \in queued \/ v \in running \/ v \in start_signals \/ Executing(v)) =>
            \A u \in Range(parallel_systems[v].dependencies) :
                CompletionProcessed(u)

\* C2 witness: a system with two distinct dependencies is executing
C2_Witness ==
    \E v \in DOMAIN parallel_systems :
        /\ Executing(v)
        /\ Cardinality(Range(parallel_systems[v].dependencies)) = 2

\* C3: when the parallel pass of an outer iteration is over, every parallel
\* system of a set whose cached result is Yes or YesAndLoop has run exactly
\* once and every other parallel system has not run.
C3_EachSystemRunsOncePerIteration ==
    pc \in AfterPassPositions =>
        \A i \in DOMAIN parallel_systems :
            ran[i] = IF WillRun(system_set_should_run[parallel_systems[i].set])
                     THEN 1 ELSE 0

\* C5: the coordinator waits on the finish channel only while some system
\* is in running, and a coordinator loop iteration that begins with running
\* empty and queued non-empty starts at least one system.
C5_WaitsOnlyWhenRunningAndStartsOne ==
    /\ pc = "wait" => running # {}
    /\ (pc \in {"wait", "loop"} /\ loop_mark) => loop_started # {}

\* C5 witness: an iteration that began with nothing running started a
\* thread-local and a thread-agnostic system and now waits
C5_Witness ==
    /\ pc = "wait"
    /\ loop_mark
    /\ loop_started \cap thread_local # {}
    /\ loop_started \ thread_local # {}

\* the order of the phases of an outer iteration
PhaseRank(name) ==
    CASE name = "at_start" -> 1
      [] name = "parallel" -> 2
      [] name = "before_commands" -> 3
      [] name = "apply_buffers" -> 4
      [] name = "at_end" -> 5

\* C6: within an outer iteration the phases occur in the order at_start,
\* parallel runs, before_commands, apply_buffers, at_end; buffers are
\* applied only when no parallel system is queued, running or executing.
C6_PhasesInOrder ==
    /\ \A k \in 1..(Len(phases) - 1) : PhaseRank(phases[k]) < PhaseRank(phases[k + 1])
    /\ pc = "apply_buffers" =>
          /\ queued = {} /\ running = {} /\ tl_index = 0
          /\ \A i \in Systems : task[i] = "none"

\* C6 witness: an iteration went through all five phases
C6_Witness ==
    /\ pc = "reevaluate"
    /\ phases = <<"at_start", "parallel", "before_commands", "apply_buffers", "at_end">>

\* C7: while an exclusive system executes, no parallel system is running or
\* executing and no spawned system task is alive.
C7_ExclusiveRunsAlone ==
    ExclusiveExecuting =>
        /\ running = {}
        /\ tl_index = 0
        /\ start_signals = {}
        /\ \A i \in Systems : task[i] = "none"

\* C7 witness: a before_commands system executes after parallel systems ran
C7_Witness ==
    /\ pc = "before_commands"
    /\ seq_pos = 1
    /\ \E i, j \in Systems : i # j /\ ran[i] = 1 /\ ran[j] = 1

(***************************************************************************)
(* SystemStage (schedule/stage.rs): system sets, labels, the rebuild of    *)
(* the sequential orders and of the parallel dependencies.  A SystemIndex  *)
(* is a record [set, system]; labels are strings.                          *)
(***************************************************************************)
Labels == {"a", "b"}

\* descriptor.label = None
NoLabel == "none"

InjectionPoints == {"AtStart", "BeforeCommands", "AtEnd"}

\* Ordering::None, Ordering::Before(target), Ordering::After(target)
Orderings ==
    {[kind |-> "None", target |-> NoLabel]}
        \cup [kind : {"Before", "After"}, target : Labels]

ParallelSystemDescriptors ==
    [label : Labels \cup {NoLabel}, dependencies : SeqsUpTo(Labels, MaxLabelDeps)]

SequentialSystemDescriptors ==
    [label : Labels \cup {NoLabel}, injection_point : InjectionPoints,
     ordering : Orderings]

StageSets == 1..NumStageSets

\* SystemSet::default
SystemSetDefault ==
    [is_dirty |-> FALSE, parallel_systems |-> <<>>, sequential_systems |-> <<>>]

\* SystemSet::add_system
SetAddSystem(system_set, kind, descriptor) ==
    IF kind = "Parallel"
    THEN [system_set EXCEPT !.parallel_systems = Append(@, descriptor),
                            !.is_dirty = TRUE]
    ELSE [system_set EXCEPT !.sequential_systems = Append(@, descriptor),
                            !.is_dirty = TRUE]

\* the indices of the parallel systems of the stage
ParallelIndices(sets) ==
    UNION {{[set |-> s, system |-> k] : k \in 1..Len(sets[s].parallel_systems)} :
              s \in DOMAIN sets}

\* the indices of the sequential systems of the stage
SequentialIndices(sets) ==
    UNION {{[set |-> s, system |-> k] : k \in 1..Len(sets[s].sequential_systems)} :
              s \in DOMAIN sets}

\* the iteration order of the two label-collecting loops: set by set, in
\* each set system by system
IndexBefore(i, j) ==
    i.set < j.set \/ (i.set = j.set /\ i.system < j.system)

\* HashMap::insert overwrites: of the systems carrying a label the one
\* visited last stays in the map
LastIndex(S) == CHOOSE i \in S : \A j \in S : j = i \/ IndexBefore(j, i)

\* parallel_labels_map after the "Collect labels" loop
ParallelLabelsMap(sets) ==
    LET carrying(l) == {i \in ParallelIndices(sets) :
                           sets[i.set].parallel_systems[i.system].label = l}
    IN [l \in {l \in Labels : carrying(l) # {}} |-> LastIndex(carrying(l))]

\* at_start_labels_map, before_commands_labels_map, at_end_labels_map
SequentialLabelsMap(sets, point) ==
    LET carrying(l) ==
            {i \in SequentialIndices(sets) :
                /\ sets[i.set].sequential_systems[i.system].label = l
                /\ sets[i.set].sequential_systems[i.system].injection_point = point}
    IN [l \in {l \in Labels : carrying(l) # {}} |-> LastIndex(carrying(l))]

\* Vec::insert(position, element), position counted from 0
VecInsert(order, position, element) ==
    SubSeq(order, 1, position) \o <<element>> \o SubSeq(order, position + 1, Len(order))

\* A variant of find_target_index that answers None for a label that is
\* not in the map.
FindTargetIndexLenient(target, order, map) ==
    LET at == {k \in 1..Len(order) : target \in DOMAIN map /\ order[k] = map[target]}
    IN IF at = {} THEN [panic |-> FALSE, found |-> FALSE, index |-> 0]
       ELSE [panic |-> FALSE, found |-> TRUE,
             index |-> (CHOOSE k \in at : \A j \in at : k <= j) - 1]

\* find_target_index: panics when the label is not in the map, otherwise
\* Some(position from 0) of the target in the order, or None
FindTargetIndex(target, order, map) ==
    IF target \notin DOMAIN map THEN [panic |-> TRUE, found |-> FALSE, index |-> 0]
    ELSE LET at == {k \in 1..Len(order) : order[k] = map[target]}
         IN IF at = {} THEN [panic |-> FALSE, found |-> FALSE, index |-> 0]
            ELSE [panic |-> FALSE, found |-> TRUE,
                  index |-> (CHOOSE k \in at : \A j \in at : k <= j) - 1]

\* insert_sequential_system
InsertSequentialSystem(system_index, ordering, order, map) ==
    IF ordering.kind = "None"
    THEN [panic |-> FALSE, order |-> Append(order, system_index)]
    ELSE LET target == FindTargetIndex(ordering.target, order, map)
         IN IF target.panic THEN [panic |-> TRUE, order |-> order]
            ELSE IF ~target.found THEN [panic |-> FALSE, order |-> order]
            ELSE IF ordering.kind = "Before"
            THEN [panic |-> FALSE,
                  order |-> VecInsert(order, target.index, system_index)]
            ELSE [panic |-> FALSE,
                  order |-> VecInsert(order, target.index + 1, system_index)]

\* the state of rebuild_orders_and_dependencies after the four clear()
\* calls
RebuildStart ==
    [status |-> "ok", parallel_dependencies |-> <<>>,
     at_start |-> <<>>, before_commands |-> <<>>, at_end |-> <<>>]

RECURSIVE PopulateParallel(_, _, _, _)
\* the loop over set s's parallel systems from system k on: a system with
\* dependencies gets an entry of parallel_dependencies, a label that is
\* not in parallel_labels_map panics
PopulateParallel(sets, s, k, st) ==
    IF st.status # "ok" \/ k > Len(sets[s].parallel_systems) THEN st
    ELSE LET descriptor == sets[s].parallel_systems[k]
             map == ParallelLabelsMap(sets)
         IN IF descriptor.dependencies = <<>>
            THEN PopulateParallel(sets, s, k + 1, st)
            ELSE IF \E d \in 1..Len(descriptor.dependencies) :
                        descriptor.dependencies[d] \notin DOMAIN map
            THEN [st EXCEPT !.status = "no such system"]
            ELSE PopulateParallel(sets, s, k + 1,
                    [st EXCEPT !.parallel_dependencies =
                        ([set |-> s, system |-> k] :>
                            [d \in 1..Len(descriptor.dependencies) |->
                                map[descriptor.dependencies[d]]]) @@ @])

RECURSIVE PopulateSequential(_, _, _, _)
\* the loop over set s's sequential systems from system k on
PopulateSequential(sets, s, k, st) ==
    IF st.status # "ok" \/ k > Len(sets[s].sequential_systems) THEN st
    ELSE LET descriptor == sets[s].sequential_systems[k]
             index == [set |-> s, system |-> k]
             point == descriptor.injection_point
             order == CASE point = "AtStart" -> st.at_start
                        [] point = "BeforeCommands" -> st.before_commands
                        [] point = "AtEnd" -> st.at_end
             r == InsertSequentialSystem(index, descriptor.ordering, order,
                                         SequentialLabelsMap(sets, point))
         IN IF r.panic THEN [st EXCEPT !.status = "no such system"]
            ELSE PopulateSequential(sets, s, k + 1,
                    CASE point = "AtStart" -> [st EXCEPT !.at_start = r.order]
                      [] point = "BeforeCommands" ->
                            [st EXCEPT !.before_commands = r.order]
                      [] point = "AtEnd" -> [st EXCEPT !.at_end = r.order])

RECURSIVE PopulateSets(_, _, _)
\* the "Populate parallel dependency tree and sequential orders" loop, from
\* set s on
PopulateSets(sets, s, st) ==
    IF s > Len(sets) THEN st
    ELSE PopulateSets(sets, s + 1,
            PopulateSequential(sets, s, 1, PopulateParallel(sets, s, 1, st)))

RECURSIVE IsPartOfACycle(_, _, _)
RECURSIVE VisitDependencies(_, _, _, _)

\* the `for dependency in graph.get(index).unwrap()` loop of
\* is_part_of_a_cycle, from position k of the dependency list on
VisitDependencies(index, k, graph, st) ==
    IF k > Len(graph[index]) THEN st
    ELSE LET r == IsPartOfACycle(graph[index][k], graph, st)
         IN IF r.result # "false" THEN r
            ELSE VisitDependencies(index, k + 1, graph, r)

\* is_part_of_a_cycle, the inner function of has_a_dependency_cycle;
\* result "unwrap" is the panic of graph.get(index).unwrap() on an index
\* that is not a key of the graph
IsPartOfACycle(index, graph, st) ==
    IF index \in st.current THEN [st EXCEPT !.result = "true"]
    ELSE IF index \in st.visited THEN st
    ELSE LET entered == [st EXCEPT !.visited = @ \cup {index},
                                   !.current = @ \cup {index}]
         IN IF index \notin DOMAIN graph
            THEN [entered EXCEPT !.result = "unwrap"]
            ELSE LET r == VisitDependencies(index, 1, graph, entered)
                 IN IF r.result # "false" THEN r
                    ELSE [r EXCEPT !.current = @ \ {index}]

RECURSIVE CycleLoop(_, _, _, _)
\* the `for system_index in self.parallel_dependencies.keys()` loop
CycleLoop(graph, keys, k, st) ==
    IF k > Len(keys) THEN "false"
    ELSE LET r == IsPartOfACycle(keys[k], graph, st)
         IN IF r.result # "false" THEN r.result
            ELSE CycleLoop(graph, keys, k + 1, r)

\* A variant of has_a_dependency_cycle that never reports a cycle.
HasADependencyCycleNever(graph, keys) == "false"

\* has_a_dependency_cycle over the keys in HashMap iteration order `keys`:
\* "true", "false", or "unwrap" when it panics
HasADependencyCycle(graph, keys) ==
    CycleLoop(graph, keys, 1, [visited |-> {}, current |-> {}, result |-> "false"])

\* the state of rebuild_orders_and_dependencies before the cycle test
Populated(sets) == PopulateSets(sets, 1, RebuildStart)

\* rebuild_orders_and_dependencies: the new orders and dependencies and
\* the status "ok", or the panic that ended the rebuild; `keys` is the
\* HashMap iteration order of parallel_dependencies
RebuildOrdersAndDependencies(sets, keys) ==
    LET populated == Populated(sets)
    IN IF populated.status # "ok" THEN populated
       ELSE LET cycle == HasADependencyCycle(populated.parallel_dependencies, keys)
            IN CASE cycle = "false" -> populated
                 [] cycle = "true" -> [populated EXCEPT !.status = "the graph cycles"]
                 [] cycle = "unwrap" -> [populated EXCEPT !.status = "unwrap on None"]

(***************************************************************************)
(* Schedule::run, SystemStage::run and SystemStage::run_once.  The         *)
(* schedule holds the one stage of the model.                              *)
(***************************************************************************)
\* what a criteria system returns: a ShouldRun value or no value
CriteriaOutputs == ShouldRunValues \cup {"None"}

\* RunCriteria::should_run, given whether a criteria system is set and
\* what it returned
RunCriteriaShouldRun(has_criteria, output) ==
    IF has_criteria
    THEN IF output = "None" THEN "No" ELSE output
    ELSE "Yes"

\* the outputs of the criteria system at its n-th evaluation in one run
\* (YesAndLoop only MaxLoops times); without a criteria system nothing is
\* evaluated
OutputsAt(has_criteria, n) ==
    IF has_criteria
    THEN IF n < MaxLoops THEN CriteriaOutputs ELSE CriteriaOutputs \ {"YesAndLoop"}
    ELSE {"None"}

\* A variant of the match whose No arm calls run_once.
AfterShouldRunNoRuns(result) ==
    IF result = "NoAndLoop" THEN "panic" ELSE "run_once"

\* A variant of the match whose NoAndLoop arm returns.
AfterShouldRunNoAndLoopReturns(result) ==
    IF result \in {"No", "NoAndLoop"} THEN "returned" ELSE "run_once"

\* the position of Schedule::run / SystemStage::run after a should_run
\* result: the arms of the match
AfterShouldRun(result) ==
    CASE result = "No" -> "returned"
      [] result = "Yes" -> "run_once"
      [] result = "YesAndLoop" -> "run_once"
      [] result = "NoAndLoop" -> "panic"

\* A variant of the match in which the Yes arm does not return.
AfterBodyLoops(result) == "should_run"

\* the position after run_once: the Yes arm returns, the YesAndLoop arm
\* goes round the loop
AfterBody(result) ==
    IF result = "Yes" THEN "returned" ELSE "should_run"

\* the fields of the stage that a rebuild writes
StageOrders ==
    [at_start |-> at_start, before_commands |-> before_commands,
     at_end |-> at_end, parallel_dependencies |-> parallel_dependencies]

NoEntry == [entered |-> FALSE]
NoOnce == [ran |-> FALSE]

\* A variant of the dirty test of run_once that always rebuilds.
NeedsRebuildAlways(sets) == TRUE

\* the `any(|system_set| system_set.is_dirty)` test of run_once
NeedsRebuild(sets) == \E s \in DOMAIN sets : sets[s].is_dirty

\* the number of systems of the stage
ParallelCount(sets) == Cardinality(ParallelIndices(sets))
SequentialCount(sets) == Cardinality(SequentialIndices(sets))

\* the systems that can be added to a stage
Additions ==
    ({"Parallel"} \X ParallelSystemDescriptors)
        \cup ({"Sequential"} \X SequentialSystemDescriptors)

\* SystemStage::add_system / SystemSet::add_system (via add_system_set);
\* the guard bounds the size of the stage
AddSystem ==
    /\ schedule_pc = "idle"
    /\ \E s \in StageSets, addition \in Additions :
          LET after == [system_sets EXCEPT
                           ![s] = SetAddSystem(@, addition[1], addition[2])]
          IN /\ ParallelCount(after) + SequentialCount(after) <= MaxStageSystems
             /\ system_sets' = after
             /\ added' = added \cup {s}
    /\ UNCHANGED <<at_start, before_commands, at_end, parallel_dependencies,
                   stage_run_criteria, schedule_run_criteria, runVars,
                   schedule_outputs, schedule_bodies, stage_outputs,
                   stage_bodies, rebuilds, executions, entry, once>>
    /\ UNCHANGED <<accVars, topoVars, execVars, critVars, laterVars>>

\* the caller invokes Schedule::run
ScheduleRun ==
    /\ schedule_pc = "idle"
    /\ schedule_pc' = "should_run"
    /\ UNCHANGED <<stageFieldVars, stage_pc, runObsVars>>
    /\ UNCHANGED <<accVars, topoVars, execVars, critVars, laterVars>>

\* Schedule::run: self.run_criteria.should_run and the match on its result
ScheduleShouldRun ==
    /\ schedule_pc = "should_run"
    /\ \E output \in OutputsAt(schedule_run_criteria, Len(schedule_outputs)) :
          /\ schedule_outputs' = Append(schedule_outputs, output)
          /\ schedule_pc' =
                AfterShouldRun(RunCriteriaShouldRun(schedule_run_criteria, output))
    /\ UNCHANGED <<stageFieldVars, stage_pc, schedule_bodies, stage_outputs,
                   stage_bodies, rebuilds, executions, entry, once, added>>
    /\ UNCHANGED <<accVars, topoVars, execVars, critVars, laterVars>>

\* Schedule::run_once: stage.run is called for the stage of the schedule
ScheduleRunOnce ==
    /\ schedule_pc = "run_once"
    /\ stage_pc = "idle"
    /\ stage_pc' = "should_run"
    /\ entry' = [entered |-> TRUE, system_sets |-> system_sets, orders |-> StageOrders]
    /\ UNCHANGED <<stageFieldVars, schedule_pc, schedule_outputs, schedule_bodies,
                   stage_outputs, stage_bodies, rebuilds, executions, once, added>>
    /\ UNCHANGED <<accVars, topoVars, execVars, critVars, laterVars>>

\* SystemStage::run: self.run_criteria.should_run and the match on its
\* result
StageShouldRun ==
    /\ stage_pc = "should_run"
    /\ \E output \in OutputsAt(stage_run_criteria, Len(stage_outputs)) :
          /\ stage_outputs' = Append(stage_outputs, output)
          /\ LET next == AfterShouldRun(RunCriteriaShouldRun(stage_run_criteria, output))
             IN /\ stage_pc' = next
                /\ schedule_pc' = IF next = "panic" THEN "panic" ELSE schedule_pc
    /\ UNCHANGED <<stageFieldVars, schedule_outputs, schedule_bodies,
                   stage_bodies, rebuilds, executions, entry, once, added>>
    /\ UNCHANGED <<accVars, topoVars, execVars, critVars, laterVars>>

\* SystemStage::run_once: the rebuild if some set is dirty, execute_stage,
\* the clearing of the dirty bits; a panic of the rebuild ends the run
StageRunOnce ==
    /\ stage_pc = "run_once"
    /\ LET dirty == \E s \in StageSets : system_sets[s].is_dirty
           last == RunCriteriaShouldRun(stage_run_criteria,
                                        stage_outputs[Len(stage_outputs)])
           rebuild == NeedsRebuild(system_sets)
           orders == IF rebuild
                     THEN Orders(DOMAIN Populated(system_sets).parallel_dependencies)
                     ELSE {<<>>}
       IN \E keys \in orders :
             LET r == IF rebuild
                      THEN RebuildOrdersAndDependencies(system_sets, keys)
                      ELSE [status |-> "ok", at_start |-> at_start,
                            before_commands |-> before_commands,
                            at_end |-> at_end,
                            parallel_dependencies |-> parallel_dependencies]
             IN /\ once' = [ran |-> TRUE, dirty |-> dirty, rebuilt |-> rebuild,
                            before |-> StageOrders, status |-> r.status]
                /\ at_start' = r.at_start
                /\ before_commands' = r.before_commands
                /\ at_end' = r.at_end
                /\ parallel_dependencies' = r.parallel_dependencies
                /\ rebuilds' = IF rebuild THEN rebuilds + 1 ELSE rebuilds
                /\ IF r.status = "ok"
                   THEN /\ executions' = executions + 1
                        /\ stage_bodies' = stage_bodies + 1
                        /\ system_sets' = [s \in StageSets |->
                                [system_sets[s] EXCEPT !.is_dirty = FALSE]]
                        /\ added' = {}
                        /\ stage_pc' = AfterBody(last)
                        /\ UNCHANGED schedule_pc
                   ELSE /\ stage_pc' = "panic"
                        /\ schedule_pc' = "panic"
                        /\ UNCHANGED <<executions, stage_bodies, system_sets, added>>
    /\ UNCHANGED <<stage_run_criteria, schedule_run_criteria, schedule_outputs,
                   schedule_bodies, stage_outputs, entry>>
    /\ UNCHANGED <<accVars, topoVars, execVars, critVars, laterVars>>

\* stage.run returns to Schedule::run_once, which returns to the match of
\* Schedule::run
StageReturn ==
    /\ stage_pc = "returned"
    /\ schedule_pc = "run_once"
    /\ stage_pc' = "idle"
    /\ stage_outputs' = <<>>
    /\ stage_bodies' = 0
    /\ rebuilds' = 0
    /\ executions' = 0
    /\ entry' = NoEntry
    /\ schedule_bodies' = schedule_bodies + 1
    /\ schedule_pc' =
          AfterBody(RunCriteriaShouldRun(schedule_run_criteria,
                                         schedule_outputs[Len(schedule_outputs)]))
    /\ UNCHANGED <<stageFieldVars, schedule_outputs, once, added>>
    /\ UNCHANGED <<accVars, topoVars, execVars, critVars, laterVars>>

\* Schedule::run returns to its caller
ScheduleReturn ==
    /\ schedule_pc = "returned"
    /\ schedule_pc' = "idle"
    /\ schedule_outputs' = <<>>
    /\ schedule_bodies' = 0
    /\ UNCHANGED <<stageFieldVars, stage_pc, stage_outputs, stage_bodies,
                   rebuilds, executions, entry, once, added>>
    /\ UNCHANGED <<accVars, topoVars, execVars, critVars, laterVars>>

\* SystemStage::new with NumStageSets sets and no run criteria, inside a
\* new Schedule
BuildIdle ==
    /\ system_sets = [s \in StageSets |-> SystemSetDefault]
    /\ at_start = <<>>
    /\ before_commands = <<>>
    /\ at_end = <<>>
    /\ parallel_dependencies = <<>>
    /\ stage_run_criteria = FALSE
    /\ schedule_run_criteria = FALSE
    /\ schedule_pc = "idle"
    /\ stage_pc = "idle"
    /\ schedule_outputs = <<>>
    /\ schedule_bodies = 0
    /\ stage_outputs = <<>>
    /\ stage_bodies = 0
    /\ rebuilds = 0
    /\ executions = 0
    /\ entry = NoEntry
    /\ once = NoOnce
    /\ added = {}

\* the stages with at most one system, as they are after construction
RunStages ==
    {[s \in StageSets |-> SystemSetDefault]} \cup
    {[[s \in StageSets |-> SystemSetDefault] EXCEPT
         ![t] = SetAddSystem(@, addition[1], addition[2])] :
        t \in StageSets, addition \in Additions}

\* a stage of RunStages in a schedule, each with or without a run criteria
\* system
InitRun ==
    /\ system_sets \in RunStages
    /\ at_start = <<>>
    /\ before_commands = <<>>
    /\ at_end = <<>>
    /\ parallel_dependencies = <<>>
    /\ stage_run_criteria \in BOOLEAN
    /\ schedule_run_criteria \in BOOLEAN
    /\ schedule_pc = "idle"
    /\ stage_pc = "idle"
    /\ schedule_outputs = <<>>
    /\ schedule_bodies = 0
    /\ stage_outputs = <<>>
    /\ stage_bodies = 0
    /\ rebuilds = 0
    /\ executions = 0
    /\ entry = NoEntry
    /\ once = NoOnce
    /\ added = {s \in StageSets : system_sets[s].is_dirty}

NextRun ==
    \/ ScheduleRun
    \/ ScheduleShouldRun
    \/ ScheduleRunOnce
    \/ StageShouldRun
    \/ StageRunOnce
    \/ StageReturn
    \/ ScheduleReturn

NextStage ==
    \/ AddSystem
    \/ ScheduleRun
    \/ ScheduleShouldRun
    \/ ScheduleRunOnce
    \/ StageShouldRun
    \/ StageRunOnce
    \/ StageReturn
    \/ ScheduleReturn

(***************************************************************************)
(* ParallelSystemStageExecutor::execute_stage of schedule/stage_executor.rs*)
(* : the evaluation and re-evaluation of the sets' run criteria around the *)
(* outer loop.                                                             *)
(***************************************************************************)
\* has_any_work after the results have been scanned
HasAnyWork(results) == \E s \in DOMAIN results : results[s] # "No"

\* has_doable_work after the results have been scanned
HasDoableWork(results) == \E s \in DOMAIN results : WillRun(results[s])

\* the results a set's RunCriteria::should_run can return
SetShouldRunResults(s) ==
    {RunCriteriaShouldRun(crit_sets[s], output) : output \in CriteriaOutputs}

\* "Evaluate run criteria": every set's criterion is evaluated; the call
\* returns when no set has work and the first assertion fails when no set
\* has doable work
CritEvaluate ==
    /\ crit_pc = "idle"
    /\ \E results \in [Sets -> ShouldRunValues] :
          /\ \A s \in Sets : results[s] \in SetShouldRunResults(s)
          /\ crit_should_run' = results
          /\ crit_pc' = IF ~HasAnyWork(results) THEN "returned"
                        ELSE IF ~HasDoableWork(results) THEN "panic"
                        ELSE "body"
    /\ crit_evaluations' = [s \in Sets |-> 1]
    /\ UNCHANGED <<crit_sets, crit_runs, crit_iterations, crit_before>>
    /\ UNCHANGED <<accVars, topoVars, execVars, buildVars, laterVars>>

\* one pass of the body of `while has_doable_work`, up to "Reevaluate run
\* criteria": the systems of the sets whose cached result is Yes or
\* YesAndLoop run
CritRunBody ==
    /\ crit_pc = "body"
    /\ crit_runs' = [s \in Sets |->
                        IF WillRun(crit_should_run[s]) THEN crit_runs[s] + 1
                        ELSE crit_runs[s]]
    /\ crit_iterations' = crit_iterations + 1
    /\ crit_pc' = "reevaluate"
    /\ UNCHANGED <<crit_sets, crit_should_run, crit_evaluations, crit_before>>
    /\ UNCHANGED <<accVars, topoVars, execVars, buildVars, laterVars>>

\* the results the "Reevaluate run criteria" loop can leave for set s
ReevaluatedResults(s, result) ==
    IF result \in {"YesAndLoop", "NoAndLoop"} THEN SetShouldRunResults(s)
    ELSE {"No"}

\* the assertion that ends the loop body
LoopAssertionHolds(results) == HasAnyWork(results) /\ ~HasDoableWork(results)

\* "Reevaluate run criteria", the assertion after it and the loop condition
CritReevaluate ==
    /\ crit_pc = "reevaluate"
    /\ \E results \in [Sets -> ShouldRunValues] :
          /\ \A s \in Sets : results[s] \in ReevaluatedResults(s, crit_should_run[s])
          /\ crit_should_run' = results
          /\ crit_pc' = IF ~LoopAssertionHolds(results) THEN "panic"
                        ELSE IF HasDoableWork(results) THEN "body"
                        ELSE "returned"
    /\ crit_evaluations' =
          [s \in Sets |-> IF crit_should_run[s] \in {"YesAndLoop", "NoAndLoop"}
                          THEN crit_evaluations[s] + 1 ELSE crit_evaluations[s]]
    /\ crit_before' = crit_should_run
    /\ UNCHANGED <<crit_sets, crit_runs, crit_iterations>>
    /\ UNCHANGED <<accVars, topoVars, execVars, buildVars, laterVars>>

\* execute_stage returns to its caller
CritReturn ==
    /\ crit_pc = "returned"
    /\ crit_pc' = "idle"
    /\ crit_should_run' = <<>>
    /\ crit_evaluations' = [s \in Sets |-> 0]
    /\ crit_runs' = [s \in Sets |-> 0]
    /\ crit_iterations' = 0
    /\ crit_before' = <<>>
    /\ UNCHANGED crit_sets
    /\ UNCHANGED <<accVars, topoVars, execVars, buildVars, laterVars>>

\* ParallelSystemStageExecutor::default, before any execute_stage call
CritStart ==
    /\ crit_should_run = <<>>
    /\ crit_pc = "idle"
    /\ crit_evaluations = [s \in Sets |-> 0]
    /\ crit_runs = [s \in Sets |-> 0]
    /\ crit_iterations = 0
    /\ crit_before = <<>>

CritIdle ==
    /\ crit_sets = [s \in Sets |-> FALSE]
    /\ CritStart

InitCriteria ==
    /\ crit_sets \in [Sets -> BOOLEAN]
    /\ CritStart

NextCriteria ==
    \/ CritEvaluate
    \/ CritRunBody
    \/ CritReevaluate
    \/ CritReturn

(***************************************************************************)
(* Properties of SystemStage and of the run loops (SpecStage, SpecRun).    *)
(***************************************************************************)
\* the dependency labels of a parallel system that resolve to a system
ResolvedDependencies(sets, i) ==
    LET map == ParallelLabelsMap(sets)
        present == SelectSeq(sets[i.set].parallel_systems[i.system].dependencies,
                             LAMBDA l : l \in DOMAIN map)
    IN [d \in 1..Len(present) |-> map[present[d]]]

\* the `after` graph the descriptors declare: every parallel system with
\* the systems its dependency labels name
DeclaredGraph(sets) ==
    [i \in ParallelIndices(sets) |-> ResolvedDependencies(sets, i)]

\* every dependency label of every parallel system names a parallel system
ParallelLabelsResolve(sets) ==
    \A i \in ParallelIndices(sets) :
        Range(sets[i.set].parallel_systems[i.system].dependencies)
            \subseteq DOMAIN ParallelLabelsMap(sets)

\* a parallel_dependencies map, completed with the systems that are named
\* as dependencies but are no keys
CompletedMap(map) ==
    LET named == UNION {Range(map[i]) : i \in DOMAIN map}
    IN [i \in DOMAIN map \cup named |-> IF i \in DOMAIN map THEN map[i] ELSE <<>>]

\* C11: when the `after` dependencies of the parallel systems contain a
\* cycle (a system that depends on its own label included), execute_stage
\* is not called: the rebuild of run_once panics; and the map handed to
\* execute_stage is never cyclic.
C11_CyclicDependenciesFailRebuild ==
    /\ HasCycle(DeclaredGraph(system_sets)) =>
          /\ executions = 0
          /\ rebuilds >= 1 => (stage_pc = "panic" /\ once.status # "ok")
    /\ executions >= 1 => ~HasCycle(CompletedMap(parallel_dependencies))

\* C11 witness: the rebuild of a stage with two parallel systems that
\* depend on each other has panicked
C11_Witness ==
    /\ stage_pc = "panic"
    /\ once.status = "the graph cycles"
    /\ \E i, j \in ParallelIndices(system_sets) :
          /\ i # j
          /\ j \in Range(DeclaredGraph(system_sets)[i])
          /\ i \in Range(DeclaredGraph(system_sets)[j])

\* every Before/After target of every sequential system is the label of a
\* sequential system of the same injection point
SequentialLabelsResolve(sets) ==
    \A i \in SequentialIndices(sets) :
        LET descriptor == sets[i.set].sequential_systems[i.system]
        IN descriptor.ordering.kind # "None" =>
              descriptor.ordering.target
                  \in DOMAIN SequentialLabelsMap(sets, descriptor.injection_point)

\* C12: a rebuild of a stage whose labels all resolve fails only when the
\* `after` dependencies of its parallel systems contain a cycle: for every
\* acyclic graph, a dependency target without dependencies of its own
\* included, the rebuild completes.
C12_AcyclicRebuildCompletes ==
    (once.ran /\ once.rebuilt /\ stage_pc = "panic"
        /\ ParallelLabelsResolve(system_sets)
        /\ SequentialLabelsResolve(system_sets))
    => HasCycle(DeclaredGraph(system_sets))

\* C13: when a dependency label of a parallel system is not the label of
\* a parallel system, or the Before/After target of a sequential system is
\* not the label of a sequential system of the same injection point,
\* execute_stage is not called: the rebuild of run_once panics with "no
\* such system".  A label carried only by a system of another group does
\* not resolve.
C13_MissingLabelsFailRebuild ==
    (~ParallelLabelsResolve(system_sets) \/ ~SequentialLabelsResolve(system_sets)) =>
        /\ executions = 0
        /\ rebuilds >= 1 => (stage_pc = "panic" /\ once.status = "no such system")

\* C13 witness: the rebuild has panicked for a sequential system whose
\* target label is carried by a system of another group only
C13_Witness ==
    /\ stage_pc = "panic"
    /\ once.status = "no such system"
    /\ ParallelLabelsResolve(system_sets)
    /\ \E i \in SequentialIndices(system_sets) :
          LET descriptor == system_sets[i.set].sequential_systems[i.system]
          IN /\ descriptor.ordering.kind # "None"
             /\ descriptor.ordering.target
                   \notin DOMAIN SequentialLabelsMap(system_sets,
                                                     descriptor.injection_point)
             /\ \/ descriptor.ordering.target \in DOMAIN ParallelLabelsMap(system_sets)
                \/ \E point \in InjectionPoints :
                      descriptor.ordering.target
                          \in DOMAIN SequentialLabelsMap(system_sets, point)

\* the order of an injection point
OrderOf(point) ==
    CASE point = "AtStart" -> at_start
      [] point = "BeforeCommands" -> before_commands
      [] point = "AtEnd" -> at_end

\* system i stands in the order, and earlier than system j
StandsBefore(order, i, j) ==
    \E k, n \in 1..Len(order) : k < n /\ order[k] = i /\ order[n] = j

\* C14: after a completed rebuild, in the order of each injection point a
\* sequential system declared Before(L) stands earlier than the system
\* labelled L, a system declared After(L) stands later than it, and the
\* systems of a set declared with Ordering::None stand in the order in
\* which they were added.
C14_SequentialOrderRespected ==
    (once.ran /\ once.status = "ok" /\ ~NeedsRebuild(system_sets)) =>
        \A i \in SequentialIndices(system_sets) :
            LET descriptor == system_sets[i.set].sequential_systems[i.system]
                point == descriptor.injection_point
                map == SequentialLabelsMap(system_sets, point)
            IN /\ (descriptor.ordering.kind = "Before" /\ map[descriptor.ordering.target] # i)
                      => StandsBefore(OrderOf(point), i, map[descriptor.ordering.target])
               /\ (descriptor.ordering.kind = "After" /\ map[descriptor.ordering.target] # i)
                      => StandsBefore(OrderOf(point), map[descriptor.ordering.target], i)
               /\ descriptor.ordering.kind = "None" =>
                      \A j \in SequentialIndices(system_sets) :
                          LET other == system_sets[j.set].sequential_systems[j.system]
                          IN (/\ other.ordering.kind = "None"
                              /\ other.injection_point = point
                              /\ j.set = i.set /\ i.system < j.system)
                             => StandsBefore(OrderOf(point), i, j)

\* the k-th result of should_run in the current SystemStage::run and
\* Schedule::run
StageResult(k) == RunCriteriaShouldRun(stage_run_criteria, stage_outputs[k])
ScheduleResult(k) == RunCriteriaShouldRun(schedule_run_criteria, schedule_outputs[k])

\* C15: when the first evaluation of the stage's run criterion answers No,
\* SystemStage::run returns with no rebuild, no call of execute_stage, and
\* with the sets (their dirty bits included) and the orders as they were on
\* entry; when the first evaluation of the schedule's criterion answers No,
\* Schedule::run returns without entering the stage.
C15_NoOnFirstEvaluation ==
    /\ (stage_outputs # <<>> /\ StageResult(1) = "No") =>
          /\ stage_pc = "returned"
          /\ Len(stage_outputs) = 1
          /\ stage_bodies = 0 /\ rebuilds = 0 /\ executions = 0
          /\ system_sets = entry.system_sets
          /\ StageOrders = entry.orders
    /\ (schedule_outputs # <<>> /\ ScheduleResult(1) = "No") =>
          /\ schedule_pc = "returned"
          /\ Len(schedule_outputs) = 1
          /\ schedule_bodies = 0
          /\ stage_pc = "idle" /\ entry = NoEntry /\ stage_outputs = <<>>

\* C15 witness: the run of a stage with a dirty set has returned after its
\* criterion answered No
C15_Witness ==
    /\ stage_pc = "returned"
    /\ stage_run_criteria
    /\ stage_outputs = <<"No">>
    /\ NeedsRebuild(system_sets)

\* C16: when the stage's or the schedule's run criterion answers
\* NoAndLoop, at the first evaluation or after YesAndLoop iterations, run
\* panics: it neither returns nor evaluates the criterion again nor runs
\* the body again.
C16_NoAndLoopPanics ==
    /\ (stage_outputs # <<>> /\ StageResult(Len(stage_outputs)) = "NoAndLoop") =>
          /\ stage_pc = "panic" /\ schedule_pc = "panic"
          /\ stage_bodies = Len(stage_outputs) - 1
    /\ (schedule_outputs # <<>>
            /\ ScheduleResult(Len(schedule_outputs)) = "NoAndLoop") =>
          /\ schedule_pc = "panic"
          /\ schedule_bodies = Len(schedule_outputs) - 1

\* C16 witness: the stage's criterion answered NoAndLoop after a
\* YesAndLoop iteration that ran the body
C16_Witness ==
    /\ stage_pc = "panic"
    /\ stage_outputs = <<"YesAndLoop", "NoAndLoop">>
    /\ stage_bodies = 1
    /\ executions = 1

\* the number of results among the first n that call for the body
BodiesCalledFor(has_criteria, outputs) ==
    Cardinality({k \in 1..Len(outputs) :
                    WillRun(RunCriteriaShouldRun(has_criteria, outputs[k]))})

\* the run loop of C17 for one criterion: its position, the outputs of its
\* evaluations so far and the number of completed bodies
RunLoopCounts(position, has_criteria, outputs, bodies) ==
    LET result(k) == RunCriteriaShouldRun(has_criteria, outputs[k])
        n == Len(outputs)
    IN /\ \A k \in 1..(n - 1) : result(k) = "YesAndLoop"
       /\ position = "should_run" =>
             /\ n > 0 => result(n) = "YesAndLoop"
             /\ bodies = n
       /\ position = "run_once" =>
             /\ WillRun(result(n))
             /\ bodies = n - 1
       /\ position = "returned" =>
             /\ result(n) \in {"Yes", "No"}
             /\ bodies = BodiesCalledFor(has_criteria, outputs)
             /\ bodies = IF result(n) = "Yes" THEN n ELSE n - 1
             /\ ~has_criteria => (n = 1 /\ bodies = 1)
       /\ (n > 0 /\ has_criteria /\ outputs[n] = "None") =>
             (position = "returned" /\ bodies = n - 1)

\* C17: SystemStage::run and Schedule::run evaluate the criterion once
\* before each body, run the body once per YesAndLoop result and once more
\* for a final Yes, and return right after the body of the first Yes or at
\* the first No; without a criterion the body runs exactly once, and a
\* criterion that gives no value counts as No.
C17_RunLoopCounts ==
    /\ RunLoopCounts(stage_pc, stage_run_criteria, stage_outputs, stage_bodies)
    /\ RunLoopCounts(schedule_pc, schedule_run_criteria, schedule_outputs,
                     schedule_bodies)

\* C17 witness: the stage's run has returned after a YesAndLoop and a Yes,
\* with two bodies
C17_Witness ==
    /\ stage_pc = "returned"
    /\ stage_outputs = <<"YesAndLoop", "Yes">>
    /\ stage_bodies = 2
    /\ executions = 2

\* C18: within one execute_stage call, a set whose cached result was Yes
\* has run its systems in one outer iteration and counts as No afterwards,
\* a set is re-evaluated only when its cached result was YesAndLoop or
\* NoAndLoop, and once the outer loop has run execute_stage goes on to
\* return normally (after one iteration when every set answered Yes).
C18_CriteriaProtocol ==
    /\ crit_before # <<>> =>
          \A s \in Sets :
              /\ crit_before[s] = "Yes" =>
                    (crit_should_run[s] = "No" /\ crit_runs[s] = 1)
              /\ crit_before[s] \in {"Yes", "No"} => crit_evaluations[s] = 1
    /\ crit_iterations >= 1 => crit_pc # "panic"

\* C19: run_once rebuilds exactly when some set is dirty; a set to which a
\* system was added is dirty until a run_once has returned; when run_once
\* has returned no set is dirty; and a run_once that found no dirty set
\* has left at_start, before_commands, at_end and parallel_dependencies as
\* they were.
C19_RebuildOnlyWhenDirty ==
    /\ \A s \in added : system_sets[s].is_dirty
    /\ once.ran =>
          /\ once.rebuilt = once.dirty
          /\ (once.status = "ok" /\ added = {}) =>
                \A s \in StageSets : ~system_sets[s].is_dirty
          /\ (~once.rebuilt /\ added = {}) =>
                (once.status = "ok" /\ StageOrders = once.before)

\* C19 witness: a second run_once without an add_system in between has
\* returned, with a system in the at_start order
C19_Witness ==
    /\ once.ran /\ ~once.rebuilt
    /\ stage_pc = "returned"
    /\ executions = 1
    /\ at_start # <<>>
    /\ added = {}

\* C20: a thread-local parallel system has no pool task and gets no start
\* signal; the coordinator runs at most one per loop iteration, starts no
\* other system while it executes, and runs it only when its declared
\* accesses conflict with those of no system that is running.
C20_ThreadLocalOnCoordinator ==
    /\ \A i \in thread_local :
          task[i] = "none" /\ i \notin start_signals /\ i \notin running
    /\ Cardinality(loop_started \cap thread_local) <= 1
    /\ pc = "thread_local" => (tl_index \in thread_local /\ loop_started = {tl_index})
    /\ tl_index # 0 =>
          \A j \in running :
              /\ ConflictFree(parallel_systems[tl_index].resource_access,
                              parallel_systems[j].resource_access, StageItems)
              /\ ConflictFree(parallel_systems[tl_index].archetype_component_access,
                              parallel_systems[j].archetype_component_access,
                              StageItems)

EnteredQueue(i) ==
    i \in queued \/ i \in running \/ i \in completed \/ tl_index = i

\* the next update_counters_and_queue call decrements a counter that is 0
UnderflowAhead ==
    \/ /\ pc = "thread_local"
       /\ UpdateCountersAndQueue(parallel, queued \ {tl_index}, should_run,
                                 parallel[tl_index].dependants).underflow
    \/ /\ pc = "wait"
       /\ finish_channel # <<>>
       /\ UpdateCountersAndQueue(parallel, queued, should_run,
                                 DependantsOfAll(parallel, finish_channel)).underflow

\* C22: every parallel system's dependencies_now stays between 0 and its
\* dependencies_total and is never decremented at 0, also with a dependency
\* listed twice or in a set that does not run; and in a pass a system has
\* entered queued exactly when its should_run bit is set and its
\* dependencies_now is 0.
C22_DependencyCounters ==
    /\ \A i \in DOMAIN parallel :
          /\ 0 <= parallel[i].dependencies_now
          /\ parallel[i].dependencies_now <= parallel[i].dependencies_total
    /\ ~UnderflowAhead
    /\ pc \in PassPositions \ {"prepare"} =>
          \A i \in DOMAIN parallel :
              EnteredQueue(i) <=> (i \in should_run /\ parallel[i].dependencies_now = 0)

\* C22 witness: a system that lists the same dependency twice has entered
\* queued after the dependency completed
C22_Witness ==
    /\ pc \in PassPositions
    /\ \E i, j \in DOMAIN parallel :
          /\ i # j
          /\ parallel_systems[i].dependencies = <<j, j>>
          /\ parallel[i].dependencies_total = 2
          /\ i \in queued
          /\ j \in completed

\* the thread-local system run_a_thread_local picks next (0 if none)
NextThreadLocal ==
    LET candidates == {i \in queued \cap thread_local :
                          CanStartNow(parallel[i], active_resource_access,
                                      active_archetype_component_access)}
    IN IF candidates = {} THEN 0
       ELSE CHOOSE i \in candidates : \A j \in candidates : i <= j

\* the assertion of get_system_mut_unsafe fails in the next step of the
\* coordinator
SafetyAssertionFailsAhead ==
    /\ pc = "loop"
    /\ queued \cup running # {}
    /\ NextThreadLocal # 0
    /\ parallel[NextThreadLocal].was_accessed_unsafely

\* C23: the assertion of get_system_mut_unsafe never fails: a system whose
\* safety bit is set is not accessed again before prepare_parallel_systems
\* resets the bit; an executing system has its bit set, and no system runs
\* twice in an outer iteration.
C23_SafetyBitNeverTripsTwice ==
    /\ ~SafetyAssertionFailsAhead
    /\ \A i \in DOMAIN parallel :
          /\ Executing(i) => parallel[i].was_accessed_unsafely
          /\ ran[i] <= 1

\* C23 witness: a thread-local system executes on the coordinator after a
\* spawned thread-agnostic system has run, both with the safety bit set
C23_Witness ==
    /\ pc = "thread_local"
    /\ parallel[tl_index].was_accessed_unsafely
    /\ \E j \in DOMAIN parallel :
          /\ j \notin thread_local
          /\ j \in completed
          /\ parallel[j].was_accessed_unsafely

\* the condensed access c includes the condensed access other: its bits
\* and its reads_all flag
CondensedIncludes(c, other) ==
    /\ other.reads_all => c.reads_all
    /\ other.reads_and_writes \subseteq c.reads_and_writes
    /\ other.writes \subseteq c.writes

\* C24: at every position of the coordinator, those where can_start_now is
\* evaluated included, the two active accesses include the condensed
\* access of every running system, and both are empty (no bits, reads_all
\* false) when no system is running.
C24_ActiveAccessCoversRunning ==
    /\ \A i \in running :
          /\ CondensedIncludes(active_resource_access, parallel[i].resource_access)
          /\ CondensedIncludes(active_archetype_component_access,
                               parallel[i].archetype_component_access)
    /\ running = {} =>
          /\ active_resource_access = CondensedDefault
          /\ active_archetype_component_access = CondensedDefault

\* C24 witness: run_a_thread_local is about to evaluate can_start_now for
\* a queued system while a system with reads_all and a write is running
C24_Witness ==
    /\ pc = "loop"
    /\ queued \cap thread_local # {}
    /\ \E i \in running :
          /\ parallel[i].resource_access.reads_all
          /\ parallel[i].resource_access.writes # {}

(***************************************************************************)
(* Schedule (schedule/mod.rs): the stage order and run_once.  A stage is   *)
(* identified by the number of the add_stage* call that added it.          *)
(***************************************************************************)
StageNames == {"s1", "s2", "s3"}

NoOrderOp == [kind |-> "none"]

\* the index (from 0) of the first occurrence of target in the order
TargetIndex(order, target) ==
    (CHOOSE k \in 1..Len(order) :
        order[k] = target /\ \A j \in 1..(k - 1) : order[j] # target) - 1

\* A variant of the insertion of add_stage_after that pushes the name.
StageOrderAfterPushed(order, target, name) == Append(order, name)

\* stage_order after add_stage_after(target, name)
StageOrderAfter(order, target, name) ==
    VecInsert(order, TargetIndex(order, target) + 1, name)

\* stage_order after add_stage_before(target, name)
StageOrderBefore(order, target, name) ==
    VecInsert(order, TargetIndex(order, target), name)

\* Schedule::add_stage: the name is pushed and the stage inserted into the
\* map (replacing a stage of that name); the guard bounds the order
AddStage ==
    /\ run_position = 0
    /\ order_op.kind # "panic"
    /\ Len(stage_order) < MaxStages
    /\ \E name \in StageNames :
          /\ stage_order' = Append(stage_order, name)
          /\ stages' = (name :> (Len(stage_order) + 1)) @@ stages
          /\ order_op' = [kind |-> "add_stage", name |-> name, target |-> name,
                          before |-> stage_order]
    /\ stages_ran' = <<>>
    /\ UNCHANGED run_position
    /\ UNCHANGED schedOthers

\* Schedule::add_stage_after
AddStageAfter ==
    /\ run_position = 0
    /\ order_op.kind # "panic"
    /\ Len(stage_order) < MaxStages
    /\ \E target \in StageNames, name \in StageNames :
          IF name \in DOMAIN stages \/ target \notin Range(stage_order)
          THEN /\ order_op' = [kind |-> "panic", name |-> name, target |-> target,
                               before |-> stage_order]
               /\ UNCHANGED <<stages, stage_order>>
          ELSE /\ stages' = (name :> (Len(stage_order) + 1)) @@ stages
               /\ stage_order' = StageOrderAfter(stage_order, target, name)
               /\ order_op' = [kind |-> "add_stage_after", name |-> name,
                               target |-> target, before |-> stage_order]
    /\ stages_ran' = <<>>
    /\ UNCHANGED run_position
    /\ UNCHANGED schedOthers

\* Schedule::add_stage_before
AddStageBefore ==
    /\ run_position = 0
    /\ order_op.kind # "panic"
    /\ Len(stage_order) < MaxStages
    /\ \E target \in StageNames, name \in StageNames :
          IF name \in DOMAIN stages \/ target \notin Range(stage_order)
          THEN /\ order_op' = [kind |-> "panic", name |-> name, target |-> target,
                               before |-> stage_order]
               /\ UNCHANGED <<stages, stage_order>>
          ELSE /\ stages' = (name :> (Len(stage_order) + 1)) @@ stages
               /\ stage_order' = StageOrderBefore(stage_order, target, name)
               /\ order_op' = [kind |-> "add_stage_before", name |-> name,
                               target |-> target, before |-> stage_order]
    /\ stages_ran' = <<>>
    /\ UNCHANGED run_position
    /\ UNCHANGED schedOthers

\* Schedule::run_once is called
RunOnceStart ==
    /\ run_position = 0
    /\ order_op.kind # "panic"
    /\ stage_order # <<>>
    /\ run_position' = 1
    /\ stages_ran' = <<>>
    /\ UNCHANGED <<stages, stage_order, order_op>>
    /\ UNCHANGED schedOthers

\* one pass of the loop of run_once: the stage of the next name of the
\* order runs; after the last name run_once returns
RunOnceStage ==
    /\ run_position # 0
    /\ stages_ran' = Append(stages_ran,
                            [name |-> stage_order[run_position],
                             stage |-> stages[stage_order[run_position]]])
    /\ run_position' = IF run_position = Len(stage_order) THEN 0
                       ELSE run_position + 1
    /\ UNCHANGED <<stages, stage_order, order_op>>
    /\ UNCHANGED schedOthers

\* Schedule::default
SchedIdle ==
    /\ stages = <<>>
    /\ stage_order = <<>>
    /\ order_op = NoOrderOp
    /\ run_position = 0
    /\ stages_ran = <<>>

NextSchedule ==
    \/ AddStage
    \/ AddStageAfter
    \/ AddStageBefore
    \/ RunOnceStart
    \/ RunOnceStage

(***************************************************************************)
(* Properties of Schedule (SpecSchedule).                                  *)
(***************************************************************************)
\* the order without the element at position k (from 1)
WithoutPosition(order, k) ==
    SubSeq(order, 1, k - 1) \o SubSeq(order, k + 1, Len(order))

\* C25: add_stage puts the new stage last; add_stage_after puts it right
\* after its target and add_stage_before right before it; each leaves the
\* stages that were in the order in their relative order; run_once runs
\* the stages of the order one after another, in that order.
C25_StageOrder ==
    /\ order_op.kind = "add_stage" =>
          /\ stage_order[Len(stage_order)] = order_op.name
          /\ WithoutPosition(stage_order, Len(stage_order)) = order_op.before
    /\ order_op.kind = "add_stage_after" =>
          \E k \in 2..Len(stage_order) :
              /\ stage_order[k] = order_op.name
              /\ stage_order[k - 1] = order_op.target
              /\ WithoutPosition(stage_order, k) = order_op.before
    /\ order_op.kind = "add_stage_before" =>
          \E k \in 1..(Len(stage_order) - 1) :
              /\ stage_order[k] = order_op.name
              /\ stage_order[k + 1] = order_op.target
              /\ WithoutPosition(stage_order, k) = order_op.before
    /\ run_position # 0 => Len(stages_ran) = run_position - 1
    /\ \A k \in 1..Len(stages_ran) :
          /\ k <= Len(stage_order)
          /\ stages_ran[k].name = stage_order[k]
          /\ stages_ran[k].stage = stages[stage_order[k]]

\* C25 witness: run_once has run the three stages of an order whose
\* middle stage was added last, with add_stage_after
C25_Witness ==
    /\ order_op.kind = "add_stage_after"
    /\ Len(stage_order) = 3
    /\ stage_order[2] = order_op.name
    /\ run_position = 0
    /\ Len(stages_ran) = 3
    /\ stages_ran[2].name = order_op.name

(***************************************************************************)
(* State (schedule/state.rs): the driver and the state criteria.           *)
(***************************************************************************)
\* the values of the user's state type
States == {"A", "B", "C"}
\* State::current before the first tick
NoState == "-"
\* a PatternLiteral is the set of the values it matches: one pattern for
\* each value, and one that matches every value
Patterns == {{s} : s \in States} \cup {States}

\* PatternLiteral::matches
Matches(pattern, t) == t \in pattern

\* Transition::None
TransitionNone == [kind |-> "None", v |-> NoState, update_same_frame |-> FALSE]

\* the StateChange events a user can send
StateChanges == [v : States, update_same_frame : BOOLEAN]

\* the three kinds of state criteria, one of each kind for every pattern
StateCriteria == {"on_enter", "on_update", "on_exit"} \X Patterns

\* the closure of State::on_update
OnUpdate(pattern, cur, trans) ==
    IF cur = NoState THEN FALSE
    ELSE Matches(pattern, cur) /\ trans.kind = "None"

\* the closure of State::on_enter
OnEnter(pattern, cur, trans) ==
    IF cur = NoState
    THEN trans.kind = "Initialize" /\ Matches(pattern, trans.v)
    ELSE /\ Matches(pattern, cur)
         /\ trans.kind = "Enter"
         /\ ~Matches(pattern, trans.v)

\* the closure of State::on_exit
OnExit(pattern, cur, trans) ==
    IF cur = NoState THEN FALSE
    ELSE /\ Matches(pattern, cur)
         /\ trans.kind = "Exit"
         /\ ~Matches(pattern, trans.v)

\* should_run_adapter
ShouldRunAdapter(cmp_result, is_done) ==
    IF is_done THEN "No"
    ELSE IF cmp_result THEN "YesAndCheckAgain"
    ELSE "NoAndCheckAgain"

\* a state criterion: its closure chained with should_run_adapter
StateCriterion(c, cur, trans, is_done) ==
    ShouldRunAdapter(
        CASE c[1] = "on_update" -> OnUpdate(c[2], cur, trans)
          [] c[1] = "on_enter" -> OnEnter(c[2], cur, trans)
          [] c[1] = "on_exit" -> OnExit(c[2], cur, trans),
        is_done)

\* the arm Transition::None as it would be if it returned No without
\* clearing done
DriverOnNoneDoneKept(s) ==
    IF s.events # <<>>
    THEN [state |-> [s EXCEPT !.transition =
                         [kind |-> "Exit", v |-> Head(s.events).v,
                          update_same_frame |-> Head(s.events).update_same_frame],
                       !.events = Tail(s.events)],
          result |-> "NoAndCheckAgain"]
    ELSE IF s.done
    THEN [state |-> s, result |-> "No"]
    ELSE IF s.prepare_for_exit
    THEN [state |-> [s EXCEPT !.prepare_for_exit = FALSE, !.done = TRUE],
          result |-> "NoAndCheckAgain"]
    ELSE [state |-> [s EXCEPT !.prepare_for_exit = TRUE],
          result |-> "NoAndCheckAgain"]

\* the arm Transition::None of state_driver; s holds State::current, the
\* scratch space (whose transition has been taken) and the unread events
DriverOnNone(s) ==
    IF s.events # <<>>
    THEN [state |-> [s EXCEPT !.transition =
                         [kind |-> "Exit", v |-> Head(s.events).v,
                          update_same_frame |-> Head(s.events).update_same_frame],
                       !.events = Tail(s.events)],
          result |-> "NoAndCheckAgain"]
    ELSE IF s.done
    THEN [state |-> [s EXCEPT !.done = FALSE], result |-> "No"]
    ELSE IF s.prepare_for_exit
    THEN [state |-> [s EXCEPT !.prepare_for_exit = FALSE, !.done = TRUE],
          result |-> "NoAndCheckAgain"]
    ELSE [state |-> [s EXCEPT !.prepare_for_exit = TRUE],
          result |-> "NoAndCheckAgain"]

\* state_driver as it would be if the arm Transition::Enter never called
\* the driver again
StateDriverNoSecondCall(s) ==
    LET trans == s.transition
        taken == [s EXCEPT !.transition = TransitionNone]
    IN CASE trans.kind = "None" -> DriverOnNone(taken)
         [] trans.kind = "Enter" ->
              [state |-> [taken EXCEPT !.prepare_for_exit = TRUE],
               result |-> "NoAndCheckAgain"]
         [] trans.kind = "Exit" ->
              [state |-> [taken EXCEPT !.prepare_for_exit = FALSE,
                            !.transition =
                                [kind |-> "Enter", v |-> s.current,
                                 update_same_frame |-> trans.update_same_frame],
                            !.current = trans.v],
               result |-> "NoAndCheckAgain"]
         [] trans.kind = "Initialize" ->
              [state |-> [taken EXCEPT !.current = trans.v],
               result |-> "NoAndCheckAgain"]
         [] trans.kind = "InitializeRequest" ->
              [state |-> [taken EXCEPT !.transition =
                              [trans EXCEPT !.kind = "Initialize"]],
               result |-> "NoAndCheckAgain"]

\* state_driver as it would be if the arm Transition::Initialize did not
\* install the initial state
StateDriverNoInstall(s) ==
    LET trans == s.transition
        taken == [s EXCEPT !.transition = TransitionNone]
    IN CASE trans.kind = "None" -> DriverOnNone(taken)
         [] trans.kind = "Enter" ->
              IF ~trans.update_same_frame
              THEN DriverOnNone([taken EXCEPT !.prepare_for_exit = TRUE])
              ELSE [state |-> [taken EXCEPT !.prepare_for_exit = TRUE],
                    result |-> "NoAndCheckAgain"]
         [] trans.kind = "Exit" ->
              [state |-> [taken EXCEPT !.prepare_for_exit = FALSE,
                            !.transition =
                                [kind |-> "Enter", v |-> s.current,
                                 update_same_frame |-> trans.update_same_frame],
                            !.current = trans.v],
               result |-> "NoAndCheckAgain"]
         [] trans.kind = "Initialize" ->
              [state |-> taken, result |-> "NoAndCheckAgain"]
         [] trans.kind = "InitializeRequest" ->
              [state |-> [taken EXCEPT !.transition =
                              [trans EXCEPT !.kind = "Initialize"]],
               result |-> "NoAndCheckAgain"]

\* state_driver: the transition is taken (and left None); in the arm
\* Transition::Enter of a change that does not update in the same frame the
\* driver calls itself, and the inner call sees Transition::None
StateDriver(s) ==
    LET trans == s.transition
        taken == [s EXCEPT !.transition = TransitionNone]
    IN CASE trans.kind = "None" -> DriverOnNone(taken)
         [] trans.kind = "Enter" ->
              IF ~trans.update_same_frame
              THEN DriverOnNone([taken EXCEPT !.prepare_for_exit = TRUE])
              ELSE [state |-> [taken EXCEPT !.prepare_for_exit = TRUE],
                    result |-> "NoAndCheckAgain"]
         [] trans.kind = "Exit" ->
              [state |-> [taken EXCEPT !.prepare_for_exit = FALSE,
                            !.transition =
                                [kind |-> "Enter", v |-> s.current,
                                 update_same_frame |-> trans.update_same_frame],
                            !.current = trans.v],
               result |-> "NoAndCheckAgain"]
         [] trans.kind = "Initialize" ->
              [state |-> [taken EXCEPT !.current = trans.v],
               result |-> "NoAndCheckAgain"]
         [] trans.kind = "InitializeRequest" ->
              [state |-> [taken EXCEPT !.transition =
                              [trans EXCEPT !.kind = "Initialize"]],
               result |-> "NoAndCheckAgain"]

\* the resources the driver works on
DriverState ==
    [current |-> state_current, transition |-> state_transition,
     prepare_for_exit |-> state_prepare_for_exit, done |-> state_done,
     events |-> state_events]

\* a StateChange event is sent between two ticks
SendStateChange ==
    /\ tick_pc = "idle"
    /\ Len(state_events) < MaxStateEvents
    /\ \E change \in StateChanges :
          state_events' = Append(state_events, change)
    /\ UNCHANGED <<state_current, state_transition, state_prepare_for_exit,
                   state_done, state_should_run, tick_pc, tick_runs,
                   tick_entry>>
    /\ UNCHANGED stateOthers

\* a tick begins: no criterion has a result yet
TickStart ==
    /\ tick_pc = "idle"
    /\ tick_pc' = "driver"
    /\ state_should_run' = [c \in StateCriteria |-> "NoAndCheckAgain"]
    /\ tick_runs' = <<>>
    /\ tick_entry' = [current |-> state_current, events |-> state_events]
    /\ UNCHANGED <<state_current, state_transition, state_prepare_for_exit,
                   state_done, state_events>>
    /\ UNCHANGED stateOthers

\* the driver is evaluated; the tick ends when it returns No
DriverEvaluated ==
    /\ tick_pc = "driver"
    /\ LET r == StateDriver(DriverState)
       IN /\ state_current' = r.state.current
          /\ state_transition' = r.state.transition
          /\ state_prepare_for_exit' = r.state.prepare_for_exit
          /\ state_done' = r.state.done
          /\ state_events' = r.state.events
          /\ tick_pc' = IF r.result = "No" THEN "idle" ELSE "criteria"
    /\ UNCHANGED <<state_should_run, tick_runs, tick_entry>>
    /\ UNCHANGED stateOthers

\* the criteria that are to be checked again are evaluated after the
\* driver, and the systems of those that say yes run
CriteriaEvaluated ==
    /\ tick_pc = "criteria"
    /\ LET results ==
               [c \in StateCriteria |->
                   IF state_should_run[c] = "No" THEN "No"
                   ELSE StateCriterion(c, state_current, state_transition,
                                       state_done)]
           yes == {c \in StateCriteria : results[c] = "YesAndCheckAgain"}
       IN /\ state_should_run' = results
          /\ tick_runs' = IF yes = {} THEN tick_runs
                          ELSE Append(tick_runs, yes)
    /\ tick_pc' = "driver"
    /\ UNCHANGED <<state_current, state_transition, state_prepare_for_exit,
                   state_done, state_events, tick_entry>>
    /\ UNCHANGED stateOthers

\* no State resource
StateIdle ==
    /\ state_current = NoState
    /\ state_transition = TransitionNone
    /\ state_prepare_for_exit = FALSE
    /\ state_done = FALSE
    /\ state_events = <<>>
    /\ state_should_run = <<>>
    /\ tick_pc = "idle"
    /\ tick_runs = <<>>
    /\ tick_entry = [current |-> NoState, events |-> <<>>]

\* State::new
InitState ==
    /\ state_current = NoState
    /\ \E initial \in States :
          state_transition = [kind |-> "InitializeRequest", v |-> initial,
                              update_same_frame |-> FALSE]
    /\ state_prepare_for_exit = FALSE
    /\ state_done = FALSE
    /\ state_events = <<>>
    /\ state_should_run = <<>>
    /\ tick_pc = "idle"
    /\ tick_runs = <<>>
    /\ tick_entry = [current |-> NoState, events |-> <<>>]

NextState ==
    \/ SendStateChange
    \/ TickStart
    \/ DriverEvaluated
    \/ CriteriaEvaluated

(***************************************************************************)
(* Properties of State (SpecState).                                        *)
(***************************************************************************)
\* the last tick is over, and it began in state a with the one event
\* change, a change to another state, unread
TickOfTransition(a, change) ==
    /\ tick_pc = "idle"
    /\ tick_entry = [current |-> a, events |-> <<change>>]
    /\ change.v # a

\* in the rounds of the last tick the on_exit criterion of a, then the
\* on_enter criterion of b yielded a run, and the on_update criterion of a
\* yielded none
ExitThenEnter(a, b) ==
    /\ Len(tick_runs) >= 2
    /\ <<"on_exit", {a}>> \in tick_runs[1]
    /\ <<"on_enter", {b}>> \in tick_runs[2]
    /\ \A k \in 1..Len(tick_runs) : <<"on_update", {a}>> \notin tick_runs[k]

\* C26 as stated: a tick that begins in state A with a transition to B
\* queued yields a run of the on_exit criterion of A, then of the on_enter
\* criterion of B, then of the on_update criterion of B, with no update of
\* A, for every queued transition.
C26_EveryTransitionUpdatesInTick ==
    \A a \in States, change \in StateChanges :
        TickOfTransition(a, change) =>
            /\ ExitThenEnter(a, change.v)
            /\ Len(tick_runs) = 3
            /\ <<"on_update", {change.v}>> \in tick_runs[3]

\* C26, amended: a tick that begins in state A with a transition to B
\* queued yields a run of the on_exit criterion of A and then of the
\* on_enter criterion of B, with no update of A; a third round in which
\* the on_update criterion of B yields a run follows when the change was
\* sent with update_same_frame set, and no on_update criterion yields a
\* run in the tick when it was not (StateChange::to).
C26_TransitionWithinTick ==
    \A a \in States, change \in StateChanges :
        TickOfTransition(a, change) =>
            /\ ExitThenEnter(a, change.v)
            /\ IF change.update_same_frame
               THEN /\ Len(tick_runs) = 3
                    /\ <<"on_update", {change.v}>> \in tick_runs[3]
               ELSE /\ Len(tick_runs) = 2
                    /\ \A k \in 1..2 :
                          \A c \in tick_runs[k] : c[1] # "on_update"

\* a tick that began in A with StateChange::to(B) queued is over: exit A
\* and enter B were the only runs
C26_Witness ==
    /\ TickOfTransition("A", [v |-> "B", update_same_frame |-> FALSE])
    /\ state_current = "B"
    /\ tick_runs = << {<<"on_exit", {"A"}>>}, {<<"on_enter", {"B"}>>} >>

(***************************************************************************)
(* Initialisation of resource parameters (system/system_param.rs).         *)
(***************************************************************************)
\* the resource parameters: Res<T>, ResMut<T> and ChangedRes<T>, for T one
\* of the resource types
ParamKinds == {"Res", "ResMut", "ChangedRes"}
ResourceParams == [kind : ParamKinds, ty : Items]

\* TypeAccess::is_read_or_write
IsReadOrWrite(a, ty) == a.reads_all \/ ty \in a.reads_and_writes

\* TypeAccess::is_write
IsWrite(a, ty) == ty \in a.writes

\* FetchRes::init: the outcome and the resource_access it leaves
FetchResInit(access, ty) ==
    IF IsWrite(access, ty) THEN [status |-> "panic", access |-> access]
    ELSE [status |-> "ok", access |-> AddRead(access, ty)]

\* FetchResMut::init as it would be if it looked for a write only
FetchResMutInitWriteOnly(access, ty) ==
    IF IsWrite(access, ty) THEN [status |-> "panic", access |-> access]
    ELSE [status |-> "ok", access |-> AddWrite(access, ty)]

\* FetchResMut::init
FetchResMutInit(access, ty) ==
    IF IsReadOrWrite(access, ty) THEN [status |-> "panic", access |-> access]
    ELSE [status |-> "ok", access |-> AddWrite(access, ty)]

\* FetchChangedRes::init
FetchChangedResInit(access, ty) ==
    IF IsWrite(access, ty) THEN [status |-> "panic", access |-> access]
    ELSE [status |-> "ok", access |-> AddRead(access, ty)]

\* the next parameter of the list, while the initialisation goes on
NextParam == params[params_done + 1]
Initialising == init_status = "ok" /\ params_done < Len(params)

\* FetchParamTuple::init reaches a Res<T>
InitRes ==
    /\ Initialising
    /\ NextParam.kind = "Res"
    /\ LET r == FetchResInit(state_resource_access, NextParam.ty)
       IN /\ init_status' = r.status
          /\ state_resource_access' = r.access
          /\ params_done' = IF r.status = "ok" THEN params_done + 1
                            ELSE params_done
    /\ UNCHANGED params
    /\ UNCHANGED paramOthers

\* FetchParamTuple::init reaches a ResMut<T>
InitResMut ==
    /\ Initialising
    /\ NextParam.kind = "ResMut"
    /\ LET r == FetchResMutInit(state_resource_access, NextParam.ty)
       IN /\ init_status' = r.status
          /\ state_resource_access' = r.access
          /\ params_done' = IF r.status = "ok" THEN params_done + 1
                            ELSE params_done
    /\ UNCHANGED params
    /\ UNCHANGED paramOthers

\* FetchParamTuple::init reaches a ChangedRes<T>
InitChangedRes ==
    /\ Initialising
    /\ NextParam.kind = "ChangedRes"
    /\ LET r == FetchChangedResInit(state_resource_access, NextParam.ty)
       IN /\ init_status' = r.status
          /\ state_resource_access' = r.access
          /\ params_done' = IF r.status = "ok" THEN params_done + 1
                            ELSE params_done
    /\ UNCHANGED params
    /\ UNCHANGED paramOthers

\* no system
ParamIdle ==
    /\ params = <<>>
    /\ params_done = 0
    /\ state_resource_access = TypeAccessDefault
    /\ init_status = "ok"

\* a system with a list of resource parameters, before its initialisation
InitParams ==
    /\ params \in SeqsUpTo(ResourceParams, MaxParams)
    /\ params_done = 0
    /\ state_resource_access = TypeAccessDefault
    /\ init_status = "ok"

NextParams ==
    \/ InitRes
    \/ InitResMut
    \/ InitChangedRes

(***************************************************************************)
(* Properties of the initialisation of parameters (SpecParams).            *)
(***************************************************************************)
\* the list holds a ResMut<T> next to another parameter of the same T
ConflictingParams(list) ==
    \E i, j \in 1..Len(list) :
        /\ i # j
        /\ list[i].kind = "ResMut"
        /\ list[j].ty = list[i].ty

\* C27: the initialisation of a parameter list panics, before it completes,
\* whenever the list holds ResMut<T> together with Res<T>, ChangedRes<T> or
\* another ResMut<T> in either order, and it completes without a panic for
\* every list without such a pair, any number of Res<T> included.
C27_ConflictingResourceParamsPanic ==
    /\ ConflictingParams(params) => params_done < Len(params)
    /\ ~Initialising =>
          (init_status = "panic" <=> ConflictingParams(params))
    /\ (\A k \in 1..Len(params) : params[k].kind # "ResMut") =>
          init_status = "ok"

\* Res<T> declared before ResMut<T>: the init of the ResMut panicked
C27_Witness ==
    /\ params = << [kind |-> "Res", ty |-> 1], [kind |-> "Res", ty |-> 1],
                   [kind |-> "ResMut", ty |-> 1] >>
    /\ params_done = 2
    /\ init_status = "panic"

(***************************************************************************)
(* ParallelSystemDescriptor (schedule/system_descriptor.rs) and the        *)
(* stage's use of it.  The stage reads the labels a system is to run       *)
(* after as descriptor.dependencies; the descriptor keeps them under that  *)
(* name here, next to the labels it is to run before.                      *)
(***************************************************************************)
\* new_parallel_descriptor
NewParallelDescriptor ==
    [label |-> NoLabel, before |-> <<>>, dependencies |-> <<>>]

\* ParallelSystemDescriptorCoercion::label
DescriptorLabel(descriptor, label) == [descriptor EXCEPT !.label = label]

\* ParallelSystemDescriptorCoercion::before
DescriptorBefore(descriptor, label) ==
    [descriptor EXCEPT !.before = Append(@, label)]

\* ParallelSystemDescriptorCoercion::after
DescriptorAfter(descriptor, label) ==
    [descriptor EXCEPT !.dependencies = Append(@, label)]

\* the calls of the builder
Coercions == {"label", "before", "after"} \X Labels

RECURSIVE Coerced(_, _)
\* the descriptor after a chain of calls on it
Coerced(descriptor, calls) ==
    IF calls = <<>> THEN descriptor
    ELSE LET call == Head(calls)
         IN Coerced(CASE call[1] = "label" -> DescriptorLabel(descriptor, call[2])
                      [] call[1] = "before" -> DescriptorBefore(descriptor, call[2])
                      [] call[1] = "after" -> DescriptorAfter(descriptor, call[2]),
                    Tail(calls))

\* the descriptors a user can build
DescribedSystems ==
    {Coerced(NewParallelDescriptor, calls) : calls \in SeqsUpTo(Coercions, MaxCoercions)}

\* SystemStage::add_system with a descriptor built by label, before and
\* after calls; the guard bounds the size of the stage
AddDescribedSystem ==
    /\ schedule_pc = "idle"
    /\ \E s \in StageSets, descriptor \in DescribedSystems :
          LET after == [system_sets EXCEPT
                           ![s] = SetAddSystem(@, "Parallel", descriptor)]
          IN /\ ParallelCount(after) <= MaxStageSystems
             /\ system_sets' = after
             /\ added' = added \cup {s}
    /\ UNCHANGED <<at_start, before_commands, at_end, parallel_dependencies,
                   stage_run_criteria, schedule_run_criteria, runVars,
                   schedule_outputs, schedule_bodies, stage_outputs,
                   stage_bodies, rebuilds, executions, entry, once>>
    /\ UNCHANGED <<accVars, topoVars, execVars, critVars, laterVars>>

NextDescriptor ==
    \/ AddDescribedSystem
    \/ ScheduleRun
    \/ ScheduleShouldRun
    \/ ScheduleRunOnce
    \/ StageShouldRun
    \/ StageRunOnce
    \/ StageReturn
    \/ ScheduleReturn

(***************************************************************************)
(* Properties of the descriptors (SpecDescriptor).                         *)
(***************************************************************************)
\* the last run_once rebuilt or kept the dependencies of the stage as it
\* is now, and executed it
StageExecutedAsIs == once.ran /\ once.status = "ok" /\ added = {}

\* C28: a `before` declaration produces a dependency edge just as an
\* `after` declaration does: when the stage is executed, the system that
\* carries a label L has among its parallel dependencies every other
\* system declared before(L), so that it begins only after they completed.
C28_BeforeProducesEdge ==
    StageExecutedAsIs =>
        \A i \in ParallelIndices(system_sets) :
            LET descriptor == system_sets[i.set].parallel_systems[i.system]
                map == ParallelLabelsMap(system_sets)
            IN \A k \in 1..Len(descriptor.before) :
                  (descriptor.before[k] \in DOMAIN map
                      /\ map[descriptor.before[k]] # i)
                  => /\ map[descriptor.before[k]] \in DOMAIN parallel_dependencies
                     /\ i \in Range(parallel_dependencies[map[descriptor.before[k]]])

(***************************************************************************)
(* QueryAccess (core/access.rs).  A query is a record [kind, ty, subs]:    *)
(* ty is the TypeId of Read, Write, With and Without (0 otherwise), subs   *)
(* the boxed query of Optional, With and Without or the members of a       *)
(* Union.  An archetype is the set of its component types.                 *)
(***************************************************************************)
ComponentTypes == 1..NumComponents
Archetypes == SUBSET ComponentTypes

\* QueryAccess::None, read, write, optional, with, without, union
QueryNone == [kind |-> "None", ty |-> 0, subs |-> <<>>]
QueryRead(ty) == [kind |-> "Read", ty |-> ty, subs |-> <<>>]
QueryWrite(ty) == [kind |-> "Write", ty |-> ty, subs |-> <<>>]
QueryOptional(access) == [kind |-> "Optional", ty |-> 0, subs |-> <<access>>]
QueryWith(ty, access) == [kind |-> "With", ty |-> ty, subs |-> <<access>>]
QueryWithout(ty, access) == [kind |-> "Without", ty |-> ty, subs |-> <<access>>]
QueryUnion(accesses) == [kind |-> "Union", ty |-> 0, subs |-> accesses]

RECURSIVE QueriesOfDepth(_)
\* the queries nested at most depth deep
QueriesOfDepth(depth) ==
    IF depth = 0
    THEN {QueryNone} \cup {QueryRead(ty) : ty \in ComponentTypes}
             \cup {QueryWrite(ty) : ty \in ComponentTypes}
    ELSE LET inner == QueriesOfDepth(depth - 1)
         IN inner
              \cup {QueryOptional(q) : q \in inner}
              \cup {QueryWith(ty, q) : ty \in ComponentTypes, q \in inner}
              \cup {QueryWithout(ty, q) : ty \in ComponentTypes, q \in inner}
              \cup {QueryUnion(qs) : qs \in SeqsUpTo(inner, MaxUnion)}

\* ArchetypeComponent::new_ty
ArchetypeComponent(archetype_index, component) == <<archetype_index, component>>

\* the derived order of ArchetypeAccess: None < Read < Write
ArchetypeAccessRank(access) ==
    CASE access = "None" -> 0 [] access = "Read" -> 1 [] access = "Write" -> 2

\* Ord::max on ArchetypeAccess
ArchetypeAccessMax(a, b) ==
    IF ArchetypeAccessRank(b) >= ArchetypeAccessRank(a) THEN b ELSE a

\* the argument type_access: None, or Some(type access)
NoTypeAccess == [some |-> FALSE, access |-> TypeAccessDefault]
SomeTypeAccess(access) == [some |-> TRUE, access |-> access]

RECURSIVE GetAccess(_, _, _, _)
RECURSIVE UnionResult(_, _, _, _, _)
RECURSIVE UnionRecord(_, _, _, _, _)
RECURSIVE GetUnionAccess(_, _, _, _)

\* the first loop of the Union arm from member k on: None ("NoMatch") as
\* soon as a member does not match, otherwise the strongest access
UnionResult(accesses, archetype, archetype_index, k, result) ==
    IF k > Len(accesses) THEN result
    ELSE LET access == GetAccess(accesses[k], archetype, archetype_index,
                                 NoTypeAccess).result
         IN IF access = "NoMatch" THEN "NoMatch"
            ELSE UnionResult(accesses, archetype, archetype_index, k + 1,
                     ArchetypeAccessMax(IF result = "NoMatch" THEN "Read"
                                        ELSE result,
                                        access))

\* the second loop of the Union arm from member k on
UnionRecord(accesses, archetype, archetype_index, k, type_access) ==
    IF k > Len(accesses) THEN type_access
    ELSE UnionRecord(accesses, archetype, archetype_index, k + 1,
             GetAccess(accesses[k], archetype, archetype_index,
                       type_access).type_access)

\* the Union arm as it would be if the members recorded their access
\* whether or not all of them match
GetUnionAccessUnguarded(accesses, archetype, archetype_index, type_access) ==
    [result |-> UnionResult(accesses, archetype, archetype_index, 1, "NoMatch"),
     type_access |->
        IF type_access.some
        THEN UnionRecord(accesses, archetype, archetype_index, 1, type_access)
        ELSE type_access]

\* the Union arm of get_access
GetUnionAccess(accesses, archetype, archetype_index, type_access) ==
    LET result == UnionResult(accesses, archetype, archetype_index, 1, "NoMatch")
    IN [result |-> result,
        type_access |->
           IF type_access.some /\ result # "NoMatch"
           THEN UnionRecord(accesses, archetype, archetype_index, 1, type_access)
           ELSE type_access]

\* QueryAccess::get_access: the Option<ArchetypeAccess> it returns (None is
\* "NoMatch") and the type access it leaves
GetAccess(access, archetype, archetype_index, type_access) ==
    CASE access.kind = "None" -> [result |-> "None", type_access |-> type_access]
      [] access.kind = "Read" ->
           IF access.ty \in archetype
           THEN [result |-> "Read",
                 type_access |->
                    IF type_access.some
                    THEN SomeTypeAccess(AddRead(type_access.access,
                             ArchetypeComponent(archetype_index, access.ty)))
                    ELSE type_access]
           ELSE [result |-> "NoMatch", type_access |-> type_access]
      [] access.kind = "Write" ->
           IF access.ty \in archetype
           THEN [result |-> "Write",
                 type_access |->
                    IF type_access.some
                    THEN SomeTypeAccess(AddWrite(type_access.access,
                             ArchetypeComponent(archetype_index, access.ty)))
                    ELSE type_access]
           ELSE [result |-> "NoMatch", type_access |-> type_access]
      [] access.kind = "Optional" ->
           LET probe == GetAccess(access.subs[1], archetype, archetype_index,
                                  NoTypeAccess)
           IN IF probe.result # "NoMatch"
              THEN IF type_access.some
                   THEN GetAccess(access.subs[1], archetype, archetype_index,
                                  type_access)
                   ELSE [result |-> probe.result, type_access |-> type_access]
              ELSE [result |-> "Read", type_access |-> type_access]
      [] access.kind = "With" ->
           IF access.ty \in archetype
           THEN GetAccess(access.subs[1], archetype, archetype_index, type_access)
           ELSE [result |-> "NoMatch", type_access |-> type_access]
      [] access.kind = "Without" ->
           IF access.ty \notin archetype
           THEN GetAccess(access.subs[1], archetype, archetype_index, type_access)
           ELSE [result |-> "NoMatch", type_access |-> type_access]
      [] access.kind = "Union" ->
           GetUnionAccess(access.subs, archetype, archetype_index, type_access)

\* one pass of the loop of get_world_archetype_access: get_access for the
\* next archetype, its index counted from 0
ArchetypeVisited ==
    /\ archetypes_done < Len(archetypes)
    /\ query_type_access' =
          GetAccess(query, archetypes[archetypes_done + 1], archetypes_done,
                    SomeTypeAccess(query_type_access)).type_access.access
    /\ archetypes_done' = archetypes_done + 1
    /\ UNCHANGED <<query, archetypes>>
    /\ UNCHANGED queryOthers

\* no query
QueryIdle ==
    /\ query = QueryNone
    /\ archetypes = <<>>
    /\ archetypes_done = 0
    /\ query_type_access = TypeAccessDefault

\* a query, a world and an empty type access
InitQuery ==
    /\ query \in QueriesOfDepth(MaxQueryDepth)
    /\ archetypes \in SeqsUpTo(Archetypes, MaxArchetypes)
    /\ archetypes_done = 0
    /\ query_type_access = TypeAccessDefault

NextQuery == ArchetypeVisited

(***************************************************************************)
(* Properties of QueryAccess (SpecQuery).                                  *)
(***************************************************************************)
RECURSIVE QueryMatches(_, _)
\* the archetype is one the query matches: a leaf needs its component,
\* With and Without test theirs, a Union needs every member (and one at
\* least), Optional and None exclude nothing
QueryMatches(q, archetype) ==
    CASE q.kind = "None" -> TRUE
      [] q.kind \in {"Read", "Write"} -> q.ty \in archetype
      [] q.kind = "Optional" -> TRUE
      [] q.kind = "With" ->
           q.ty \in archetype /\ QueryMatches(q.subs[1], archetype)
      [] q.kind = "Without" ->
           q.ty \notin archetype /\ QueryMatches(q.subs[1], archetype)
      [] q.kind = "Union" ->
           /\ q.subs # <<>>
           /\ \A k \in 1..Len(q.subs) : QueryMatches(q.subs[k], archetype)

RECURSIVE LeafAccesses(_, _)
\* the leaves [ty, write] a query that matches the archetype accesses
\* there: its Read and Write leaves, those under an Optional only where
\* the optional part matches; With and Without add nothing of their own
LeafAccesses(q, archetype) ==
    CASE q.kind = "None" -> {}
      [] q.kind = "Read" -> {[ty |-> q.ty, write |-> FALSE]}
      [] q.kind = "Write" -> {[ty |-> q.ty, write |-> TRUE]}
      [] q.kind = "Optional" ->
           IF QueryMatches(q.subs[1], archetype)
           THEN LeafAccesses(q.subs[1], archetype)
           ELSE {}
      [] q.kind \in {"With", "Without"} -> LeafAccesses(q.subs[1], archetype)
      [] q.kind = "Union" ->
           UNION {LeafAccesses(q.subs[k], archetype) : k \in 1..Len(q.subs)}

\* the (archetype, T) items of the archetypes visited so far that the
\* query matches, all of them or the written ones
ExpectedItems(written_only) ==
    UNION {{ArchetypeComponent(k - 1, leaf.ty) :
               leaf \in {l \in LeafAccesses(query, archetypes[k]) :
                            l.write \/ ~written_only}} :
              k \in {j \in 1..archetypes_done : QueryMatches(query, archetypes[j])}}

\* C29: get_world_archetype_access records access to (archetype, T) only
\* for the archetypes the whole query matches, and there exactly the reads
\* and writes of its leaves: nothing for an archetype a Union member does
\* not match, the inner access of an Optional only where it matches, and
\* nothing for the filter type of With and Without.
C29_ArchetypeAccessOfMatches ==
    /\ ~query_type_access.reads_all
    /\ query_type_access.reads_and_writes = ExpectedItems(FALSE)
    /\ query_type_access.writes = ExpectedItems(TRUE)

\* the tuple query (&1, &mut 2) has visited an archetype with component 1
\* alone, which it does not match, and one with both components
C29_Witness ==
    /\ query = QueryUnion(<<QueryRead(1), QueryWrite(2)>>)
    /\ archetypes = <<{1}, {1, 2}>>
    /\ archetypes_done = 2
    /\ query_type_access.reads_and_writes = {<<1, 1>>, <<1, 2>>}
    /\ query_type_access.writes = {<<1, 2>>}

(***************************************************************************)
(* ChainSystem (system/system_chaining.rs).                                *)
(***************************************************************************)
ChainItems == 1..MaxChainItems

\* the values of a TypeAccess over the items
ChainAccesses ==
    {a \in [reads_all : BOOLEAN, reads_and_writes : SUBSET ChainItems,
            writes : SUBSET ChainItems] : a.writes \subseteq a.reads_and_writes}

\* a chained system, as far as its access goes: what its
\* archetype_component_access() and resource_access() return after its
\* update_access
ChainedSystems ==
    [archetype_component_access : ChainAccesses, resource_access : ChainAccesses]

\* ChainSystem::update_access
ChainUpdateAccess ==
    /\ ~chain_updated
    /\ chain_archetype_component_access' =
          TypeAccessExtend(TypeAccessClear(chain_archetype_component_access),
                           system_a.archetype_component_access)
    /\ chain_resource_access' =
          TypeAccessExtend(TypeAccessClear(chain_resource_access),
                           system_b.resource_access)
    /\ chain_updated' = TRUE
    /\ UNCHANGED <<system_a, system_b>>
    /\ UNCHANGED chainOthers

\* no chain
ChainIdle ==
    /\ system_a = [archetype_component_access |-> TypeAccessDefault,
                   resource_access |-> TypeAccessDefault]
    /\ system_b = [archetype_component_access |-> TypeAccessDefault,
                   resource_access |-> TypeAccessDefault]
    /\ chain_archetype_component_access = TypeAccessDefault
    /\ chain_resource_access = TypeAccessDefault
    /\ chain_updated = FALSE

\* IntoChainSystem::chain
InitChain ==
    /\ system_a \in ChainedSystems
    /\ system_b \in ChainedSystems
    /\ chain_archetype_component_access = TypeAccessDefault
    /\ chain_resource_access = TypeAccessDefault
    /\ chain_updated = FALSE

NextChain == ChainUpdateAccess

(***************************************************************************)
(* Properties of ChainSystem (SpecChain).                                  *)
(***************************************************************************)
\* the access a includes every item of the access b, write status and
\* reads_all preserved
TypeAccessIncludes(a, b) ==
    /\ b.reads_all => a.reads_all
    /\ b.reads_and_writes \subseteq a.reads_and_writes
    /\ b.writes \subseteq a.writes

\* C30: after update_access the archetype_component_access and the
\* resource_access of a ChainSystem each include every item accessed by
\* system_a and every item accessed by system_b, with write status and
\* reads_all preserved.
C30_ChainAccessCoversBoth ==
    chain_updated =>
        /\ TypeAccessIncludes(chain_archetype_component_access,
                              system_a.archetype_component_access)
        /\ TypeAccessIncludes(chain_archetype_component_access,
                              system_b.archetype_component_access)
        /\ TypeAccessIncludes(chain_resource_access, system_a.resource_access)
        /\ TypeAccessIncludes(chain_resource_access, system_b.resource_access)

(***************************************************************************)
(* Further properties of the executor's scheduling data (Spec).            *)
(***************************************************************************)
\* C31: the universes of rebuild_scheduling_data and update_parallel_access
\* contain every item a parallel system reads or writes and are shared by
\* all systems, so that is_compatible of the condensed accesses of any two
\* parallel systems equals TypeAccess::is_compatible of their declared
\* accesses, reads_all systems included.
C31_CondensedAgreesWithDeclared ==
    \A i \in DOMAIN parallel, j \in DOMAIN parallel :
        i # j =>
            /\ CondensedIsCompatible(parallel[i].resource_access,
                                     parallel[j].resource_access)
                  = IsCompatible(parallel_systems[i].resource_access,
                                 parallel_systems[j].resource_access)
            /\ CondensedIsCompatible(parallel[i].archetype_component_access,
                                     parallel[j].archetype_component_access)
                  = IsCompatible(parallel_systems[i].archetype_component_access,
                                 parallel_systems[j].archetype_component_access)

(***************************************************************************)
(* The executor's scheduling data over several runs of a stage             *)
(* (SystemStage::run_once of schedule/stage.rs and execute_stage,          *)
(* rebuild_scheduling_data and update_parallel_access of                   *)
(* schedule/stage_executor_parallel.rs).  A parallel system is identified  *)
(* by its position in sd_systems, which stands for its SystemIndex; it     *)
(* records the set it was added to, the parallel system its label          *)
(* dependency resolves to (0 if none), whether its archetype component     *)
(* access is reads_all, and the archetypes generation of the world in its  *)
(* last update_access call.                                                *)
(***************************************************************************)
\* no update_access call yet; also the u64::MAX the executor starts with
NoGeneration == MaxGenerations + 1

RECURSIVE SystemsBySet(_, _)
\* the parallel systems in the order `for system_set in system_sets` visits
\* them, from set s on
SystemsBySet(systems, s) ==
    IF s > NumStageSets THEN <<>>
    ELSE SetToSeq({i \in DOMAIN systems : systems[i].set = s})
             \o SystemsBySet(systems, s + 1)

\* rebuild_orders_and_dependencies: the parallel_dependencies of the
\* stage's parallel systems
DependenciesOfSystems(systems) ==
    [i \in DOMAIN systems |->
        IF systems[i].after = 0 THEN <<>> ELSE <<systems[i].after>>]

\* System::update_access of every system in `updated`
UpdateAccess(systems, updated, generation) ==
    [i \in DOMAIN systems |->
        IF i \in updated
        THEN [systems[i] EXCEPT !.access_generation = generation]
        ELSE systems[i]]

\* rebuild_scheduling_data: the systems, whose access is updated if the
\* archetypes changed since the executor last looked, the new parallel
\* list and last_archetypes_generation
SchedulingDataRebuilt(systems, dependencies, last, generation) ==
    LET updated == IF last # generation
                   THEN UpdateAccess(systems, DOMAIN systems, generation)
                   ELSE systems
        order == SystemsBySet(systems, 1)
        parallel_systems_mapping(i) == CHOOSE p \in DOMAIN order : order[p] = i
    IN [systems |-> updated,
        parallel |->
            [p \in DOMAIN order |->
                [index |-> order[p],
                 dependants |->
                     SetToSeq({parallel_systems_mapping(i) :
                                 i \in {d \in DOMAIN dependencies :
                                           order[p] \in Range(dependencies[d])}}),
                 reads_all |-> updated[order[p]].reads_all,
                 access_generation |-> updated[order[p]].access_generation]],
        last_archetypes_generation |->
            IF last # generation THEN generation ELSE last]

\* update_parallel_access: update_access and a new condensed access for
\* the entries whose condensed access is not reads_all
ParallelAccessUpdated(parallel_list, systems, generation) ==
    LET refreshed == {p \in DOMAIN parallel_list : ~parallel_list[p].reads_all}
        updated == UpdateAccess(systems,
                                {parallel_list[p].index : p \in refreshed},
                                generation)
    IN [systems |-> updated,
        parallel |->
            [p \in DOMAIN parallel_list |->
                IF p \in refreshed
                THEN [parallel_list[p] EXCEPT
                        !.reads_all = updated[parallel_list[p].index].reads_all,
                        !.access_generation = generation]
                ELSE parallel_list[p]]]

SetsClean == [s \in StageSets |-> FALSE]

\* SystemSet::add_system with a parallel system, between two runs
SdAddSystem ==
    /\ sd_pc = "idle"
    /\ Len(sd_systems) < MaxDataSystems
    /\ \E s \in StageSets, after \in 0..Len(sd_systems), reads_all \in BOOLEAN :
          /\ sd_systems' = Append(sd_systems,
                                  [set |-> s, after |-> after,
                                   reads_all |-> reads_all,
                                   access_generation |-> NoGeneration])
          /\ sd_is_dirty' = [sd_is_dirty EXCEPT ![s] = TRUE]
    /\ UNCHANGED <<sd_parallel_dependencies, sd_parallel,
                   sd_last_archetypes_generation, sd_archetypes_generation,
                   sd_pc>>
    /\ UNCHANGED dataOthers

\* the archetypes of the world change between two runs of the stage
SdArchetypesChange ==
    /\ sd_pc = "idle"
    /\ sd_archetypes_generation < MaxGenerations
    /\ sd_archetypes_generation' = sd_archetypes_generation + 1
    /\ UNCHANGED <<sd_systems, sd_is_dirty, sd_parallel_dependencies,
                   sd_parallel, sd_last_archetypes_generation, sd_pc>>
    /\ UNCHANGED dataOthers

\* run_once up to the outer loop of execute_stage: the orders and
\* dependencies are rebuilt if a set is dirty, the sets' run criteria say
\* whether there is work, execute_stage returns if there is none, and the
\* scheduling data is rebuilt if a set is dirty; when execute_stage
\* returned, run_once clears the dirty bits
SdRunOnce ==
    /\ sd_pc = "idle"
    /\ LET dirty == \E s \in StageSets : sd_is_dirty[s]
           dependencies == IF dirty THEN DependenciesOfSystems(sd_systems)
                           ELSE sd_parallel_dependencies
           rebuilt == SchedulingDataRebuilt(sd_systems, dependencies,
                                            sd_last_archetypes_generation,
                                            sd_archetypes_generation)
       IN /\ sd_parallel_dependencies' = dependencies
          /\ \E has_work \in BOOLEAN :
                IF ~has_work
                THEN /\ sd_is_dirty' = SetsClean
                     /\ UNCHANGED <<sd_systems, sd_parallel,
                                    sd_last_archetypes_generation, sd_pc>>
                ELSE /\ sd_pc' = "at_start"
                     /\ IF dirty
                        THEN /\ sd_systems' = rebuilt.systems
                             /\ sd_parallel' = rebuilt.parallel
                             /\ sd_last_archetypes_generation' =
                                    rebuilt.last_archetypes_generation
                        ELSE UNCHANGED <<sd_systems, sd_parallel,
                                         sd_last_archetypes_generation>>
                     /\ UNCHANGED sd_is_dirty
    /\ UNCHANGED sd_archetypes_generation
    /\ UNCHANGED dataOthers

\* the outer loop up to the parallel pass: the at_start systems run and may
\* change the archetypes, and update_parallel_access is called if the
\* generation is not the one the executor saw last
SdAtStart ==
    /\ sd_pc = "at_start"
    /\ \E generation \in {sd_archetypes_generation,
                          sd_archetypes_generation + 1} :
          /\ generation <= MaxGenerations
          /\ sd_archetypes_generation' = generation
          /\ IF sd_last_archetypes_generation # generation
             THEN LET r == ParallelAccessUpdated(sd_parallel, sd_systems,
                                                 generation)
                  IN /\ sd_systems' = r.systems
                     /\ sd_parallel' = r.parallel
                     /\ sd_last_archetypes_generation' = generation
             ELSE UNCHANGED <<sd_systems, sd_parallel,
                              sd_last_archetypes_generation>>
    /\ sd_pc' = "parallel"
    /\ UNCHANGED <<sd_is_dirty, sd_parallel_dependencies>>
    /\ UNCHANGED dataOthers

\* the rest of an iteration of the outer loop: the parallel systems, the
\* before_commands systems, the command buffers and the at_end systems,
\* which may change the archetypes, and reevaluate_run_criteria; when the
\* loop ends execute_stage returns and run_once clears the dirty bits
SdParallelPass ==
    /\ sd_pc = "parallel"
    /\ \E generation \in {sd_archetypes_generation,
                          sd_archetypes_generation + 1} :
          /\ generation <= MaxGenerations
          /\ sd_archetypes_generation' = generation
    /\ \E has_work \in BOOLEAN :
          IF has_work
          THEN /\ sd_pc' = "at_start"
               /\ UNCHANGED sd_is_dirty
          ELSE /\ sd_pc' = "idle"
               /\ sd_is_dirty' = SetsClean
    /\ UNCHANGED <<sd_systems, sd_parallel_dependencies, sd_parallel,
                   sd_last_archetypes_generation>>
    /\ UNCHANGED dataOthers

\* SystemStage::default and ParallelSystemStageExecutor::default in a new
\* world
DataIdle ==
    /\ sd_systems = <<>>
    /\ sd_is_dirty = SetsClean
    /\ sd_parallel_dependencies = <<>>
    /\ sd_parallel = <<>>
    /\ sd_last_archetypes_generation = NoGeneration
    /\ sd_archetypes_generation = 0
    /\ sd_pc = "idle"

NextData ==
    \/ SdAddSystem
    \/ SdArchetypesChange
    \/ SdRunOnce
    \/ SdAtStart
    \/ SdParallelPass

\* a parallel pass is about to start
ParallelPassStarts == sd_pc = "parallel"

\* C32: whenever a parallel pass starts, the condensed archetype component
\* access of every entry of the executor's parallel list was computed from
\* an update_access call made at the world's current archetypes generation
C32_AccessOfCurrentGeneration ==
    ParallelPassStarts =>
        \A p \in DOMAIN sd_parallel :
            sd_parallel[p].access_generation = sd_archetypes_generation

\* C33: whenever a parallel pass starts, the executor's parallel list holds
\* exactly one entry for every parallel system of the stage's sets, and the
\* dependants of every entry are the systems that have it among their
\* parallel_dependencies
C33_SchedulingDataMirrorsStage ==
    ParallelPassStarts =>
        /\ Len(sd_parallel) = Len(sd_systems)
        /\ {sd_parallel[p].index : p \in DOMAIN sd_parallel} = DOMAIN sd_systems
        /\ \A p \in DOMAIN sd_parallel :
              {sd_parallel[q].index : q \in Range(sd_parallel[p].dependants)}
                  = {i \in DOMAIN sd_parallel_dependencies :
                        sd_parallel[p].index
                            \in Range(sd_parallel_dependencies[i])}

(***************************************************************************)
(* Further properties of the stage's orders (SpecStage).                   *)
(***************************************************************************)
\* how often system i occurs in an order
OccurrencesIn(order, i) == Cardinality({k \in DOMAIN order : order[k] = i})

\* C34: after a completed rebuild, every sequential system of every set
\* occurs exactly once in the order of its own injection point and in no
\* other order.
C34_EverySequentialSystemScheduled ==
    (once.ran /\ once.status = "ok" /\ ~NeedsRebuild(system_sets)) =>
        \A i \in SequentialIndices(system_sets), point \in InjectionPoints :
            OccurrencesIn(OrderOf(point), i) =
                IF system_sets[i.set].sequential_systems[i.system].injection_point
                       = point
                THEN 1 ELSE 0

(***************************************************************************)
(* Further properties of TypeAccess and CondensedTypeAccess (SpecAccess).  *)
(***************************************************************************)
\* C35: is_compatible is symmetric, a.is_compatible(b) = b.is_compatible(a),
\* for TypeAccess and for the condensed forms, also when a side has
\* reads_all set and a non-empty write set.
C35_IsCompatibleSymmetric ==
    acc_out.valid =>
        /\ acc_out.ab = acc_out.ba
        /\ acc_out.cond_ab = acc_out.cond_ba

(***************************************************************************)
(* Further properties of Schedule (SpecSchedule).                          *)
(***************************************************************************)
\* C36: after add_stage, add_stage_before and add_stage_after calls that
\* did not fail, stage_order holds each stage name exactly once and its
\* names are the keys of the stages map, so a run of the schedule runs
\* every stage exactly once.
C36_StageOrderMatchesStages ==
    order_op.kind # "panic" =>
        /\ Range(stage_order) = DOMAIN stages
        /\ \A name \in DOMAIN stages : OccurrencesIn(stage_order, name) = 1
        /\ (run_position = 0 /\ stages_ran # <<>>) =>
              \A name \in DOMAIN stages :
                  Cardinality({k \in DOMAIN stages_ran :
                                  stages_ran[k].name = name}) = 1

(***************************************************************************)
(* State with StateChange events that arrive in the course of a tick       *)
(* (SpecStateEvents), and further properties of State.                     *)
(***************************************************************************)
\* a StateChange event arrives between two evaluations of the driver in a
\* tick, sent by a system of the stage that ran in the round before; events
\* arrive while fewer than MaxEventRounds rounds of the tick have run
\* systems under a state criterion
SendStateChangeInTick ==
    /\ tick_pc = "driver"
    /\ Len(tick_runs) < MaxEventRounds
    /\ Len(state_events) < MaxStateEvents
    /\ \E change \in StateChanges :
          state_events' = Append(state_events, change)
    /\ UNCHANGED <<state_current, state_transition, state_prepare_for_exit,
                   state_done, state_should_run, tick_pc, tick_runs,
                   tick_entry>>
    /\ UNCHANGED stateOthers

NextStateEvents ==
    \/ SendStateChange
    \/ SendStateChangeInTick
    \/ TickStart
    \/ DriverEvaluated
    \/ CriteriaEvaluated

\* C37: a transition of kind Exit or Enter is pending only when the
\* initial state has been installed, so that the driver finds
\* State::current to be Some when it processes an Exit
C37_ExitOnlyAfterInitialize ==
    state_transition.kind \in {"Exit", "Enter"} => state_current # NoState

\* C37 witness: the driver has turned an event that was sent before the
\* first tick into an Exit, in the tick that installed the initial state
C37_Witness ==
    /\ state_transition.kind = "Exit"
    /\ tick_entry.current = NoState
    /\ tick_entry.events # <<>>
    /\ tick_pc = "criteria"

\* the on_update criteria that match the state t
UpdatesOf(t) == {c \in StateCriteria : c[1] = "on_update" /\ Matches(c[2], t)}

\* the rounds of the current tick in which criterion c yielded a run
RunsOf(c) == {k \in DOMAIN tick_runs : c \in tick_runs[k]}

\* C38: in a tick in which no state change was pending the on_update
\* criterion of the current state yields a run exactly once, also in the
\* first tick after State::new, in which the initial state is installed
C38_OneUpdatePerTick ==
    (tick_pc = "idle" /\ tick_runs # <<>> /\ tick_entry.events = <<>>) =>
        \A c \in UpdatesOf(state_current) : Cardinality(RunsOf(c)) = 1

\* C39: whenever the scratch transition is not None the done flag is false
C39_NoTransitionWhileDone ==
    state_transition.kind # "None" => ~state_done

\* no tick is under way and the initial state has been installed: a tick
\* has ended
TickOver == tick_pc = "idle" /\ state_current # NoState

\* the scratch space a tick starts from
CleanScratch ==
    /\ state_transition = TransitionNone
    /\ ~state_done
    /\ ~state_prepare_for_exit

\* C40: when no events are sent in the course of a tick, every tick ends
\* (the driver returns No after finitely many evaluations), and when it has
\* ended the transition is None and done and prepare_for_exit are false
C40_TickEndsClean ==
    /\ [](TickOver => CleanScratch)
    /\ (tick_pc # "idle") ~> (tick_pc = "idle")

\* C40 witness: a tick that began with a StateChange event pending has
\* ended, the event has been read and the scratch space is clean
C40_Witness ==
    /\ TickOver
    /\ tick_entry.current # NoState
    /\ tick_entry.events # <<>>
    /\ state_events = <<>>
    /\ Len(tick_runs) >= 2
    /\ CleanScratch

(***************************************************************************)
(* Specifications.                                                         *)
(***************************************************************************)
vars == <<accVars, topoVars, execVars, buildVars, critVars, laterVars>>

\* the idle values of the variables of the specifications that follow
\* SpecCriteria
LaterIdle ==
    /\ SchedIdle
    /\ StateIdle
    /\ ParamIdle
    /\ QueryIdle
    /\ ChainIdle
    /\ DataIdle

InitAccess ==
    /\ AccIdle
    /\ TopoIdle
    /\ ExecIdle
    /\ BuildIdle
    /\ CritIdle
    /\ LaterIdle

SpecAccess == InitAccess /\ [][NextAccess]_vars

InitTopo ==
    /\ AccIdle
    /\ topo_graph \in Graphs
    /\ topo_out = TopoNoOut
    /\ ExecIdle
    /\ BuildIdle
    /\ CritIdle
    /\ LaterIdle

SpecTopo == InitTopo /\ [][NextTopo]_vars

Init ==
    /\ AccIdle
    /\ TopoIdle
    /\ InitStage
    /\ BuildIdle
    /\ CritIdle
    /\ LaterIdle

Next ==
    \/ ExecuteStage
    \/ RunAtStart
    \/ PrepareParallelSystems
    \/ RunAThreadLocal
    \/ ThreadLocalFinish
    \/ SignalThreadAgnostic
    \/ TaskStart
    \/ TaskFinish
    \/ ReceiveFinished
    \/ JoinScope
    \/ RunBeforeCommands
    \/ ApplyBuffers
    \/ RunAtEnd
    \/ ReevaluateRunCriteria

Spec == Init /\ [][Next]_vars

InitBuild ==
    /\ AccIdle
    /\ TopoIdle
    /\ ExecIdle
    /\ BuildIdle
    /\ CritIdle
    /\ LaterIdle

SpecStage == InitBuild /\ [][NextStage]_vars

InitStageRun ==
    /\ AccIdle
    /\ TopoIdle
    /\ ExecIdle
    /\ InitRun
    /\ CritIdle
    /\ LaterIdle

SpecRun == InitStageRun /\ [][NextRun]_vars

InitCrit ==
    /\ AccIdle
    /\ TopoIdle
    /\ ExecIdle
    /\ BuildIdle
    /\ InitCriteria
    /\ LaterIdle

SpecCriteria == InitCrit /\ [][NextCriteria]_vars

InitSchedule ==
    /\ AccIdle
    /\ TopoIdle
    /\ ExecIdle
    /\ BuildIdle
    /\ CritIdle
    /\ SchedIdle
    /\ StateIdle
    /\ ParamIdle
    /\ QueryIdle
    /\ ChainIdle
    /\ DataIdle

SpecSchedule == InitSchedule /\ [][NextSchedule]_vars

InitStateSpec ==
    /\ AccIdle
    /\ TopoIdle
    /\ ExecIdle
    /\ BuildIdle
    /\ CritIdle
    /\ SchedIdle
    /\ InitState
    /\ ParamIdle
    /\ QueryIdle
    /\ ChainIdle
    /\ DataIdle

SpecState == InitStateSpec /\ [][NextState]_vars

\* the executor goes on evaluating the driver and the criteria as long as a
\* criterion is to be checked again
SpecStateFair ==
    /\ InitStateSpec
    /\ [][NextState]_vars
    /\ WF_vars(DriverEvaluated)
    /\ WF_vars(CriteriaEvaluated)

SpecStateEvents == InitStateSpec /\ [][NextStateEvents]_vars

InitParamSpec ==
    /\ AccIdle
    /\ TopoIdle
    /\ ExecIdle
    /\ BuildIdle
    /\ CritIdle
    /\ SchedIdle
    /\ StateIdle
    /\ InitParams
    /\ QueryIdle
    /\ ChainIdle
    /\ DataIdle

SpecParams == InitParamSpec /\ [][NextParams]_vars

InitQuerySpec ==
    /\ AccIdle
    /\ TopoIdle
    /\ ExecIdle
    /\ BuildIdle
    /\ CritIdle
    /\ SchedIdle
    /\ StateIdle
    /\ ParamIdle
    /\ InitQuery
    /\ ChainIdle
    /\ DataIdle

SpecQuery == InitQuerySpec /\ [][NextQuery]_vars

InitChainSpec ==
    /\ AccIdle
    /\ TopoIdle
    /\ ExecIdle
    /\ BuildIdle
    /\ CritIdle
    /\ SchedIdle
    /\ StateIdle
    /\ ParamIdle
    /\ QueryIdle
    /\ InitChain
    /\ DataIdle

SpecChain == InitChainSpec /\ [][NextChain]_vars

InitDataSpec ==
    /\ AccIdle
    /\ TopoIdle
    /\ ExecIdle
    /\ BuildIdle
    /\ CritIdle
    /\ SchedIdle
    /\ StateIdle
    /\ ParamIdle
    /\ QueryIdle
    /\ ChainIdle
    /\ DataIdle

SpecData == InitDataSpec /\ [][NextData]_vars

SpecDescriptor == InitBuild /\ [][NextDescriptor]_vars

\* C4: a parallel pass never gets stuck: at every position of the pass
\* some step of the coordinator or of a started system is possible, so
\* the pass ends and the task scope completes.
C4_PassNeverStuck == pc \in PassPositions => ENABLED Next

====
